---------------------------- MODULE Spec2Model ----------------------------
(***************************************************************************)
(* A model of the apantli gateway's request-resolution and dispatch        *)
(* pipeline: the streaming generator of outbound.py, the resolver of       *)
(* model_resolution.py, the handlers of incoming.py and the pricing        *)
(* service of pricing.py.                                                  *)
(*                                                                         *)
(* Three specifications share the module:                                  *)
(*   SpecStream   one streaming call: execute_streaming_request.generate   *)
(*                driven by its consumer, the upstream iterator and the    *)
(*                caller's connection;                                     *)
(*   SpecResolve  one chat or embedding request from arrival to dispatch   *)
(*                (or to the error envelope), and a buffered chat request  *)
(*                on through the executor call to its response.            *)
(*   SpecPricing  the pricing index: initialize() and refresh_loop()       *)
(*                rebuilding it under the lock, handlers looking costs up. *)
(***************************************************************************)
EXTENDS Integers, Sequences, FiniteSets, TLC

\* Python's None (every optional value of the model is a string).
Null == "null"

(***************************************************************************)
(* Bounds                                                                  *)
(***************************************************************************)
\* Longest upstream chunk sequence of one streaming call.
MaxChunks == 5

VARIABLES
    \* ---- one streaming call (outbound.py, execute_streaming_request) ----
    upstream,             \* the chunks the upstream iterator holds, in order
    idx,                  \* how many of them the for loop has fetched
    pc,                   \* position of generate()
    connected,            \* FALSE once request.is_disconnected() reports True
    closing,              \* TRUE once the consumer has closed the generator
    sent,                 \* events yielded to the consumer, in order
    exc,                  \* the exception an error clause of generate() caught
    stream_error,         \* generate()'s local stream_error (Null = None)
    socket_error_logged,  \* the nonlocal flag of the same name
    full_response,        \* the synthetic record accumulated for logging
    observed,             \* chunks forwarded when line 64 first saw the disconnect
    raisedWhile,          \* what is_disconnected would have said when upstream raised
    propagated,           \* the exception that left generate() (Null = none)
    logCalls,             \* calls of db.log_request made so far
    records,              \* usage records the database has stored
    \* ---- one chat or embedding request (incoming.py) ----
    config,               \* request.app.state.config: models and providers
    environ,              \* os.environ, the variables credentials may name
    request,              \* the endpoint called and the JSON body sent
    dbUp,                 \* FALSE when db.log_request raises
    rpc,                  \* position of the handler
    merged,               \* what create_completion_request returned
    dispatched,           \* the keyword arguments handed to the executor
    outcome,              \* what the executor did: a completion or a raise
    handling,             \* the exception handle_llm_error was given
    response,             \* what the caller gets back
    costed,               \* the cost execute_request obtained, and when
    \* ---- the pricing service (pricing.py, CatwalkPricingService) ----
    pricing_index,        \* self._pricing_index: provider id -> model id -> rates
    last_refresh,         \* self._last_refresh: the attempt that last swapped (0 = None)
    lock,                 \* self._lock: "free" or the task holding it
    attempts,             \* rebuild attempts that have taken the lock so far
    ppc,                  \* position of each task using the service
    fetched,              \* what each task's client.get() gave it
    reported,             \* how each task's last rebuild ended, as logged
    rounds,               \* iterations refresh_loop has started
    lookup,               \* the last calculate_cost call and its result
    \* ---- the configuration loader (config.py) ----
    reloads,              \* calls of Config.reload() so far
    config_file,          \* what the last reload() found at config_path
    reload_error,         \* the exception the last reload() caught, if any
    \* ---- successive calls through the authenticated routes (auth.py) ----
    headers,              \* the Authorization header of the request being served
    served                \* what earlier calls handed to the executor, in order

vars == <<upstream, idx, pc, connected, closing, sent, exc, stream_error,
          socket_error_logged, full_response, observed, raisedWhile, propagated,
          logCalls, records,
          config, environ, request, dbUp, rpc, merged, dispatched,
          outcome, handling, response, costed,
          pricing_index, last_refresh, lock, attempts, ppc, fetched, reported,
          rounds, lookup,
          reloads, config_file, reload_error,
          headers, served>>

\* The variables of the streaming call other than the two the handlers share.
streamOnlyVars == <<upstream, idx, pc, connected, closing, sent, exc,
                    stream_error, socket_error_logged, full_response,
                    observed, raisedWhile, propagated>>

\* The variables of the request handlers other than the two shared ones.
resolveOnlyVars == <<config, environ, request, dbUp, rpc, merged, dispatched,
                     outcome, handling, response, costed>>

\* The variables of the pricing service.
pricingVars == <<pricing_index, last_refresh, lock, attempts, ppc, fetched,
                 reported, rounds, lookup>>

\* The variables of the loader other than the Config object itself.
loaderVars == <<reloads, config_file, reload_error>>
callVars == <<headers, served>>

(***************************************************************************)
(* Streaming: data                                                         *)
(***************************************************************************)
\* Payloads of a chunk's model_dump(): the delta content (Null when the
\* delta carries none), the chunk id (Null when empty) and the usage field
\* (Null when the chunk has no 'usage' key).
ChunkPayloads ==
    { [content |-> "a",  id |-> "id1", usage |-> Null],
      [content |-> Null, id |-> Null,  usage |-> "u1"],
      [content |-> "b",  id |-> "id2", usage |-> Null] }

\* The chunk at position i of the upstream iterator.
Chunk(i, p) == [seq |-> i, content |-> p.content, id |-> p.id, usage |-> p.usage]

\* Every upstream chunk sequence of length at most MaxChunks.
UpstreamSeqs ==
    UNION { { [i \in 1..n |-> Chunk(i, f[i])] : f \in [1..n -> ChunkPayloads] }
            : n \in 0..MaxChunks }

\* Exceptions the try block of generate() can see, by the except clause
\* that catches them.
TransportErrors == {"BrokenPipeError", "ConnectionError", "ConnectionResetError"}
StreamProviderErrors == {"RateLimitError", "InternalServerError",
                         "ServiceUnavailableError", "Timeout",
                         "APIConnectionError", "BadRequestError"}
OtherErrors == {"AuthenticationError", "PermissionDeniedError", "NotFoundError",
                "RuntimeError"}
RaisedKinds == TransportErrors \cup StreamProviderErrors \cup OtherErrors

\* f"data: {json.dumps(chunk_dict)}\n\n"
ChunkEvent(c) == [kind |-> "chunk", data |-> c]
\* f"data: {json.dumps(error_event)}\n\n" with build_error_response("stream_error", msg, code)
ErrorEvent(code) == [kind |-> "error", data |-> code]
\* "data: [DONE]\n\n"
DoneEvent == [kind |-> "done", data |-> Null]

\* full_response as built before generate() starts.
EmptyResponse == [id |-> Null, content |-> <<>>, usage |-> "u0"]

\* Accumulate keeping only the latest delta instead of appending it.
AccumulateLatestOnly(fr, c) ==
    [ id      |-> IF c.id # Null THEN c.id ELSE fr.id,
      content |-> IF c.content # Null THEN <<c.content>> ELSE fr.content,
      usage   |-> IF c.usage # Null THEN c.usage ELSE fr.usage ]

\* Lines 72-84: accumulate content, id and usage of one chunk.
Accumulate(fr, c) ==
    [ id      |-> IF c.id # Null THEN c.id ELSE fr.id,
      content |-> IF c.content # Null THEN Append(fr.content, c.content) ELSE fr.content,
      usage   |-> IF c.usage # Null THEN c.usage ELSE fr.usage ]

\* str.lower() on the exception class names.
Lower(k) ==
    CASE k = "RateLimitError"          -> "ratelimiterror"
      [] k = "InternalServerError"     -> "internalservererror"
      [] k = "ServiceUnavailableError" -> "serviceunavailableerror"
      [] k = "Timeout"                 -> "timeout"
      [] k = "APIConnectionError"      -> "apiconnectionerror"
      [] k = "BadRequestError"         -> "badrequesterror"
      [] k = "AuthenticationError"     -> "authenticationerror"
      [] k = "PermissionDeniedError"   -> "permissiondeniederror"
      [] k = "NotFoundError"           -> "notfounderror"
      [] OTHER                         -> "runtimeerror"

\* The code of the error event: type(exc).__name__.lower() in the provider
\* clause (line 99), "internal_error" in the catch-all clause (line 108).
ErrorCode(k) == IF k \in StreamProviderErrors THEN Lower(k) ELSE "internal_error"
\* stream_error as lines 98 and 107 set it.
StreamErrorOf(k) == IF k \in StreamProviderErrors THEN k ELSE "UnexpectedStreamError"


(***************************************************************************)
(* Resolver: data                                                          *)
(***************************************************************************)
\* The aliases a configuration may hold, in Python's ascending string order.
AliasOrder == <<"alpha", "beta", "gamma">>
Aliases == {AliasOrder[i] : i \in 1..Len(AliasOrder)}
\* a < b on strings, for the aliases above.
Rank(a) == CHOOSE i \in 1..Len(AliasOrder) : AliasOrder[i] = a

\* The optional call parameters the model draws client and config values for.
ParamKeys == {"temperature", "top_p", "timeout", "max_tokens"}

\* The declared fields of ChatFunctionCallArgs that the resolver reads or
\* writes (types.py lines 16-66; custom_llm_provider is an allowed extra).
CallFields == {"model", "messages"} \cup ParamKeys \cup
              {"stream", "api_key", "base_url", "extra_headers", "custom_llm_provider"}

\* The declared fields of EmbeddingFunctionCallArgs (types.py lines 81-97).
EmbeddingFields == {"model", "input", "timeout", "user", "dimensions",
                    "encoding_format", "api_base", "api_key", "extra_headers",
                    "custom_llm_provider"}

\* Upstream model identifiers, as the pieces the substring test can see.
Pieces(m) ==
    CASE m = "openai/gpt-4o"                        -> <<"openai/", "gpt-4o">>
      [] m = "anthropic/claude-opus-4-5"            -> <<"anthropic/", "claude-opus-4", "-5">>
      [] m = "anthropic/claude-sonnet-4-5-20250929" -> <<"anthropic/", "claude-sonnet-4-5-20250929">>
      [] OTHER                                      -> <<m>>
LitellmModels == {"openai/gpt-4o", "anthropic/claude-opus-4-5",
                  "anthropic/claude-sonnet-4-5-20250929"}

\* Python's `needle in hay` on strings cut into pieces.
Contains(hay, needle) ==
    \E i \in 1..Len(Pieces(hay)) : Pieces(hay)[i] = needle

\* bool(v) for the optional values of the model.
Truthy(v) == v \notin {Null, "", "0"}

\* A dict with no entries.
EmptyMap == [k \in {} |-> Null]

\* model_resolution.py lines 117-120 (inside filter_parameters_for_model).
ANTHROPIC_STRICT_MODELS == {"claude-sonnet-4-5-20250929", "claude-opus-4"}

\* ModelConfig, with the context_window the resolver reads from it.
ModelConfig(name, lm, prov, params, ctx) ==
    [model_name |-> name, litellm_model |-> lm, provider_name |-> prov,
     litellm_params |-> params, context_window |-> ctx]

\* ProviderConfig as parse_providers builds it.
ProviderConfig(name, key, tmo, url) ==
    [provider_name |-> name, api_key |-> key, timeout |-> tmo, base_url |-> url,
     headers |-> Null, custom_llm_provider |-> Null]

\* config.models.keys(), in insertion order.
ModelKeys(cfg) == [i \in 1..Len(cfg.models) |-> cfg.models[i].model_name]
HasModel(cfg, a) == \E i \in 1..Len(cfg.models) : cfg.models[i].model_name = a

\* get_model_for_name: config.models[model_name] (KeyError when absent).
get_model_for_name(cfg, a) ==
    cfg.models[CHOOSE i \in 1..Len(cfg.models) : cfg.models[i].model_name = a]

\* sorted() of a list of aliases.
RECURSIVE SortedSet(_)
SortedSet(S) ==
    IF S = {} THEN <<>>
    ELSE LET m == CHOOSE x \in S : \A y \in S : Rank(x) <= Rank(y)
         IN  <<m>> \o SortedSet(S \ {m})
sorted(keys) == SortedSet({keys[i] : i \in 1..Len(keys)})

(***************************************************************************)
(* Resolver: model_resolution.py                                           *)
(***************************************************************************)
\* What a resolver call gives: a call request, or the HTTPException raised.
Resolved(call) == [tag |-> "ok", call |-> call, status |-> 0,
                   text |-> Null, subject |-> Null, available |-> <<>>]
Raised(name) == [tag |-> "exc", call |-> EmptyMap, status |-> 0,
                 text |-> name, subject |-> Null, available |-> <<>>]
HTTPException(status, text, subject, available) ==
    [tag |-> "http", call |-> EmptyMap, status |-> status,
     text |-> text, subject |-> subject, available |-> available]

\* Lines 55-63 (and 169-177): the 404 raised for an alias that is not
\* configured, its message listing the configured aliases.
ModelNotFound(cfg, a) ==
    HTTPException(404, "Model not found in configuration.", a, sorted(ModelKeys(cfg)))

\* get_provider_for_model returning without a provider instead of raising.
ProviderUnchecked(mc) ==
    [tag |-> "ok",
     call |-> [f \in CallFields |-> IF f = "model" THEN mc.litellm_model ELSE Null],
     status |-> 0, text |-> Null, subject |-> Null, available |-> <<>>]

\* get_provider_for_model, lines 15-38: the 500 raised when the model's
\* provider is not configured.
ProviderNotFound(mc) ==
    HTTPException(500, "Provider not found in configuration for model",
                  mc.provider_name, <<>>)

\* The credential with the marker resolved to one fixed value, not read from
\* the environment of the call.
ResolveApiKeyOnce(key, env) ==
    IF key = "os.environ/KEY" THEN "sk-env" ELSE key

\* Lines 77-81: the credential, literal or named by an environment variable.
ResolveApiKey(key, env) ==
    IF key = "os.environ/KEY"
      THEN (IF "KEY" \in DOMAIN env THEN env["KEY"] ELSE "")
      ELSE key

\* Lines 67-75: the request starts from the client's non-null parameters.
ClientCopy(mc, body, fields, payloadField) ==
    [f \in fields |->
        IF f = "model" THEN mc.litellm_model
        ELSE IF f = payloadField THEN body.payload
        ELSE IF f \in DOMAIN body.params THEN body.params[f]
        ELSE Null]

\* Lines 77-83: the provider's credential, when it is not empty.
ApplyApiKey(call, pc_, env) ==
    IF ResolveApiKey(pc_.api_key, env) # ""
      THEN [call EXCEPT !["api_key"] = ResolveApiKey(pc_.api_key, env)]
      ELSE call

\* Lines 85-93: a litellm_params value fills a field that is still None.
ApplyModelParams(call, mc) ==
    [f \in DOMAIN call |->
        IF /\ f \in DOMAIN mc.litellm_params
           /\ f \notin {"model", "api_key"}
           /\ call[f] = Null
          THEN mc.litellm_params[f]
          ELSE call[f]]

\* Line 95: max_tokens is set from the model's context window.
ApplyContextWindow(call, mc) == [call EXCEPT !["max_tokens"] = mc.context_window]

\* Lines 97-99: the provider's timeout, when it has one.
ApplyProviderTimeout(call, pc_) ==
    IF Truthy(pc_.timeout) THEN [call EXCEPT !["timeout"] = pc_.timeout] ELSE call

\* Lines 101-108: base URL, fixed headers and custom provider tag.
ApplyProviderEndpoint(call, pc_, urlField) ==
    [f \in DOMAIN call |->
        IF f = urlField THEN pc_.base_url
        ELSE IF f = "extra_headers" /\ Truthy(pc_.headers) THEN pc_.headers
        ELSE IF f = "custom_llm_provider" /\ Truthy(pc_.custom_llm_provider)
          THEN pc_.custom_llm_provider
        ELSE call[f]]

\* create_completion_request, lines 40-110.
create_completion_request(a, body, cfg, env) ==
    IF ~HasModel(cfg, a) THEN ModelNotFound(cfg, a)
    ELSE LET mc == get_model_for_name(cfg, a) IN
         IF mc.provider_name \notin DOMAIN cfg.providers THEN ProviderNotFound(mc)
         ELSE IF body.payload = Null THEN Raised("KeyError")
         ELSE LET pc_ == cfg.providers[mc.provider_name]
                  c1  == ClientCopy(mc, body, CallFields, "messages")
                  c2  == ApplyApiKey(c1, pc_, env)
                  c3  == ApplyModelParams(c2, mc)
                  c4  == ApplyContextWindow(c3, mc)
                  c5  == ApplyProviderTimeout(c4, pc_)
              IN  Resolved(ApplyProviderEndpoint(c5, pc_, "base_url"))

\* create_embedding_request, lines 154-223.
create_embedding_request(a, body, cfg, env) ==
    IF ~HasModel(cfg, a) THEN ModelNotFound(cfg, a)
    ELSE LET mc == get_model_for_name(cfg, a) IN
         IF mc.provider_name \notin DOMAIN cfg.providers THEN ProviderNotFound(mc)
         ELSE LET pc_ == cfg.providers[mc.provider_name]
                  c1  == ClientCopy(mc, body, EmbeddingFields, "input")
                  c2  == ApplyApiKey(c1, pc_, env)
                  c3  == ApplyModelParams(c2, mc)
                  c4  == ApplyProviderTimeout(c3, pc_)
              IN  Resolved(ApplyProviderEndpoint(c4, pc_, "api_base"))

\* Lines 134-140: is the upstream model one of the strict ones?
is_strict_model(lm) == \E strict \in ANTHROPIC_STRICT_MODELS : Contains(lm, strict)

\* filter_parameters_for_model returning its argument untouched.
filter_parameters_unfiltered(call) == call

\* filter_parameters_for_model, lines 113-147.
filter_parameters_for_model(call) ==
    IF is_strict_model(call["model"]) THEN [call EXCEPT !["top_p"] = Null] ELSE call

\* to_dict keeping the None-valued fields.
to_dict_keeping_none(call) == call

\* ChatFunctionCallArgs.to_dict, types.py lines 72-78 (and 103-109).
to_dict(call) ==
    [f \in {g \in DOMAIN call : call[g] # Null} |-> call[f]]

(***************************************************************************)
(* Handlers: incoming.py                                                   *)
(***************************************************************************)
\* The message of an error, as the parts its text is formatted from.
Message(text, subject, available) ==
    [text |-> text, subject |-> subject, available |-> available]
NoMessage == Message(Null, Null, <<>>)

\* build_error_response(error_type, message, code): the "error" object of
\* the envelope {"error": {"message", "type", "code"}}.
build_error_response(type, message, code) ==
    [message |-> message, type |-> type, code |-> code]
NoEnvelope == build_error_response(Null, NoMessage, Null)

\* JSONResponse(content=..., status_code=...) around an error envelope.
JSONResponse(content, status) ==
    [status |-> status, error |-> content, escaped |-> Null, body |-> Null]
\* JSONResponse(content=response_dict): the completion, status 200.
CompletionResponse(response_dict) ==
    [status |-> 200, error |-> NoEnvelope, escaped |-> Null, body |-> response_dict]
\* An exception that leaves the handler: the framework answers 500 itself.
Unhandled(name) ==
    [status |-> 500, error |-> NoEnvelope, escaped |-> name, body |-> Null]
NoResponse == [status |-> 0, error |-> NoEnvelope, escaped |-> Null, body |-> Null]

\* The record db.log_request is given by the handlers' HTTPException clause:
\* (model, "unknown", None, duration_ms, request_data, error="UnknownModel: ...").
UnknownModelRecord(a, r) ==
    [alias |-> a, provider |-> "unknown", response |-> Null,
     error |-> [tag |-> "UnknownModel",
                detail |-> Message(r.text, r.subject, r.available)]]

\* Database.log_request: one record more in the store.
log_request(recs, rec) == Append(recs, rec)

\* Lines 105-118: the HTTPException clause of chat_completions.
ChatHTTPException(r) ==
    /\ logCalls' = logCalls + 1
    /\ IF dbUp
         THEN /\ records' = log_request(records, UnknownModelRecord(request.model, r))
              /\ response' = JSONResponse(
                     build_error_response("invalid_request_error",
                                          Message(r.text, r.subject, r.available),
                                          "model_not_found"),
                     r.status)
         ELSE /\ response' = Unhandled("DatabaseError")
              /\ UNCHANGED records
    /\ rpc' = "responded"
    /\ UNCHANGED <<merged, dispatched>>

\* An early return or an escaping exception: nothing logged, nothing sent on.
AnswerWithoutLog(resp) ==
    /\ response' = resp
    /\ rpc' = "responded"
    /\ UNCHANGED <<merged, dispatched, logCalls, records>>

\* The executor is about to be called with **request_data.to_dict().
Dispatch(call, kwargs) ==
    /\ merged' = call
    /\ dispatched' = kwargs
    /\ rpc' = "dispatched"
    /\ UNCHANGED <<response, logCalls, records>>

\* chat_completions, lines 56-85 and 105-140, up to the executor call.
ChatCompletions ==
    /\ rpc = "arrived"
    /\ request.endpoint = "chat"
    /\ IF ~Truthy(request.model)
         THEN AnswerWithoutLog(JSONResponse(
                  build_error_response("invalid_request_error",
                      Message("Model is required", Null, <<>>), "missing_model"),
                  400))
         ELSE LET r == create_completion_request(request.model, request, config, environ)
              IN  CASE r.tag = "ok" ->
                         Dispatch(r.call, to_dict(filter_parameters_for_model(r.call)))
                    [] r.tag = "http" -> ChatHTTPException(r)
                    [] OTHER -> AnswerWithoutLog(Unhandled("UnboundLocalError"))
    /\ UNCHANGED <<config, environ, request, dbUp, outcome, handling>>
    /\ UNCHANGED streamOnlyVars
    /\ UNCHANGED pricingVars
    /\ UNCHANGED loaderVars
    /\ UNCHANGED callVars
    /\ UNCHANGED costed

\* The executor's return values: a completion whose model_dump() carries a
\* usage object, or one whose 'usage' key holds None.
Completions == { [id |-> "cmpl-1", usage |-> u] : u \in {"usage-1", Null} }

\* The nine exception classes the handlers' provider clause names
\* (incoming.py lines 120-122).
ProviderErrors == {"RateLimitError", "AuthenticationError", "PermissionDeniedError",
                   "NotFoundError", "Timeout", "InternalServerError",
                   "ServiceUnavailableError", "APIConnectionError",
                   "BadRequestError"}
\* What completion() can raise: one of the nine, or anything else.
CompletionErrors == ProviderErrors \cup {"RuntimeError"}

\* The executor's outcome: nothing yet, a completion, or a raise.
NoOutcome == [tag |-> "none", body |-> Null, name |-> Null]
Returned(body) == [tag |-> "ok", body |-> body, name |-> Null]
Threw(name) == [tag |-> "exc", body |-> Null, name |-> name]

\* get_error_details(e): status, category and short code of an exception,
\* the nine kinds each with their own, anything else the internal-error
\* fallback.
get_error_details(k) ==
    CASE k = "RateLimitError" ->
           [status |-> 429, type |-> "rate_limit_error", code |-> "rate_limit_exceeded"]
      [] k = "AuthenticationError" ->
           [status |-> 401, type |-> "authentication_error", code |-> "invalid_api_key"]
      [] k = "PermissionDeniedError" ->
           [status |-> 403, type |-> "permission_denied", code |-> "permission_denied"]
      [] k = "NotFoundError" ->
           [status |-> 404, type |-> "invalid_request_error", code |-> "not_found"]
      [] k = "Timeout" ->
           [status |-> 504, type |-> "timeout_error", code |-> "request_timeout"]
      [] k = "InternalServerError" ->
           [status |-> 503, type |-> "service_unavailable", code |-> "provider_error"]
      [] k = "ServiceUnavailableError" ->
           [status |-> 503, type |-> "service_unavailable", code |-> "service_unavailable"]
      [] k = "APIConnectionError" ->
           [status |-> 502, type |-> "connection_error", code |-> "connection_error"]
      [] k = "BadRequestError" ->
           [status |-> 400, type |-> "invalid_request_error", code |-> "bad_request"]
      [] OTHER ->
           [status |-> 500, type |-> "internal_error", code |-> "internal_error"]

\* extract_error_message(e): the exception's own message, without the
\* provider's prefix and stack trace.
extract_error_message(k) == Message("upstream error message", k, <<>>)

\* Lines 205-207: type(e).__name__, the two provider-side failures renamed.
error_name(k) ==
    IF k \in {"InternalServerError", "ServiceUnavailableError"}
      THEN "ProviderError" ELSE k

\* The usage record of a completion (outbound.py line 179).
NoError == [tag |-> Null, detail |-> NoMessage]
SuccessRecord(a, body) ==
    [alias |-> a, provider |-> "inferred", response |-> body, error |-> NoError]

\* The usage record of a failed call (outbound.py lines 210-217):
\* response None, error=f"{error_name}: {clean_error_msg}".
ErrorRecord(lm, k) ==
    [alias |-> lm, provider |-> "inferred", response |-> Null,
     error |-> [tag |-> error_name(k), detail |-> extract_error_message(k)]]

\* incoming.py line 85: completion(**request_data.to_dict(), drop_params=True)
\* returns or raises; a raise is caught by the provider clause (lines
\* 120-129) or the catch-all (lines 131-140), both calling handle_llm_error.
\* The requests explored leave stream unset, so a completion goes to
\* execute_request.
Completion ==
    /\ rpc = "dispatched"
    /\ request.endpoint = "chat"
    /\ \/ \E b \in Completions :
             /\ outcome' = Returned(b)
             /\ rpc' = "execute"
             /\ UNCHANGED handling
       \/ \E k \in CompletionErrors :
             /\ outcome' = Threw(k)
             /\ handling' = k
             /\ rpc' = "handle"
    /\ UNCHANGED <<config, environ, request, dbUp, merged, dispatched, response,
                   logCalls, records>>
    /\ UNCHANGED streamOnlyVars
    /\ UNCHANGED pricingVars
    /\ UNCHANGED loaderVars
    /\ UNCHANGED callVars
    /\ UNCHANGED costed

\* model_resolution.calculate_cost(response), lines 149-151, the function
\* outbound.py imports at line 18 and calls at lines 131 and 186: 0.0 for
\* every response.
model_resolution_calculate_cost(response_dict) == 0

\* Lines 183-184: usage.get('prompt_tokens', 0) and
\* usage.get('completion_tokens', 0) of the completion's usage object.
usage_tokens(usage) == IF usage = "usage-1" THEN <<1000, 500>> ELSE <<0, 0>>

\* pricing_override of calculate_cost: None, or a dict of rates.
NoOverride == [given |-> FALSE, rates |-> EmptyMap]
Override(rates) == [given |-> TRUE, rates |-> rates]

\* What get_pricing_params (incoming.py lines 27-42) hands the handler at
\* line 64: provider_config.catwalk_name, model_config.costing_model and
\* model_config.pricing_override, or three None when the alias does not
\* resolve.  Nothing reads them before the executor has returned.
PricingParams ==
    { <<Null, Null, NoOverride>>,
      <<"openai", "gpt-4o", NoOverride>>,
      <<"openai", "gpt-4o",
        Override([cost_per_1m_in |-> 1, cost_per_1m_out |-> 2])>> }

\* No cost obtained yet.
NoCost ==
    [obtained |-> FALSE, cost |-> 0, logCallsBefore |-> 0, catwalk_name |-> Null,
     costing_model |-> Null, pricing_override |-> NoOverride, tokens |-> <<0, 0>>]

\* execute_request, outbound.py lines 159-189.  The write at line 179 is not
\* guarded, so its failure leaves execute_request; so does the
\* AttributeError of usage.get at line 183 when 'usage' holds None.  Either
\* lands in the catch-all clause of chat_completions (lines 131-140).  The
\* cost is computed at line 186, after the write, for the log line of 187.
ExecuteRequest ==
    /\ rpc = "execute"
    /\ logCalls' = logCalls + 1
    /\ IF ~dbUp
         THEN /\ handling' = "DatabaseError"
              /\ rpc' = "handle"
              /\ UNCHANGED <<records, response>>
         ELSE /\ records' = log_request(records,
                                SuccessRecord(request.model, outcome.body))
              /\ IF outcome.body.usage = Null
                   THEN /\ handling' = "AttributeError"
                        /\ rpc' = "handle"
                        /\ UNCHANGED response
                   ELSE /\ response' = CompletionResponse(outcome.body)
                        /\ rpc' = "responded"
                        /\ UNCHANGED handling
    /\ IF dbUp /\ outcome.body.usage # Null
         THEN \E q \in PricingParams :
                 costed' = [obtained |-> TRUE,
                            cost |-> model_resolution_calculate_cost(outcome.body),
                            logCallsBefore |-> logCalls',
                            catwalk_name |-> q[1],
                            costing_model |-> q[2],
                            pricing_override |-> q[3],
                            tokens |-> usage_tokens(outcome.body.usage)]
         ELSE UNCHANGED costed
    /\ UNCHANGED <<config, environ, request, dbUp, merged, dispatched, outcome>>
    /\ UNCHANGED streamOnlyVars
    /\ UNCHANGED pricingVars
    /\ UNCHANGED loaderVars
    /\ UNCHANGED callVars

\* handle_llm_error never reaching its log_request call.
HandleLlmErrorSkipLog ==
    /\ rpc = "handle"
    /\ rpc' = "handled"
    /\ UNCHANGED <<logCalls, records, response>>
    /\ UNCHANGED <<config, environ, request, dbUp, merged, dispatched, outcome,
                   handling>>
    /\ UNCHANGED streamOnlyVars
    /\ UNCHANGED pricingVars
    /\ UNCHANGED loaderVars
    /\ UNCHANGED callVars
    /\ UNCHANGED costed

\* handle_llm_error, outbound.py lines 194-217: classify the exception and
\* write the usage record.  The write is not guarded: its failure leaves
\* handle_llm_error and, raised inside an except clause, the handler.
HandleLlmErrorLog ==
    /\ rpc = "handle"
    /\ logCalls' = logCalls + 1
    /\ IF dbUp
         THEN /\ records' = log_request(records,
                                ErrorRecord(merged["model"], handling))
              /\ rpc' = "handled"
              /\ UNCHANGED response
         ELSE /\ response' = Unhandled("DatabaseError")
              /\ rpc' = "responded"
              /\ UNCHANGED records
    /\ UNCHANGED <<config, environ, request, dbUp, merged, dispatched, outcome,
                   handling>>
    /\ UNCHANGED streamOnlyVars
    /\ UNCHANGED pricingVars
    /\ UNCHANGED loaderVars
    /\ UNCHANGED callVars
    /\ UNCHANGED costed

\* handle_llm_error, outbound.py lines 219-224: the error envelope.
HandleLlmErrorRespond ==
    /\ rpc = "handled"
    /\ response' = JSONResponse(
           build_error_response(get_error_details(handling).type,
                                extract_error_message(handling),
                                get_error_details(handling).code),
           get_error_details(handling).status)
    /\ rpc' = "responded"
    /\ UNCHANGED <<logCalls, records>>
    /\ UNCHANGED <<config, environ, request, dbUp, merged, dispatched, outcome,
                   handling>>
    /\ UNCHANGED streamOnlyVars
    /\ UNCHANGED pricingVars
    /\ UNCHANGED loaderVars
    /\ UNCHANGED callVars
    /\ UNCHANGED costed

\* embeddings, lines 154-230, up to the executor call.  Its HTTPException
\* clause names request_data_obj, which is unbound when the resolver raised.
Embeddings ==
    /\ rpc = "arrived"
    /\ request.endpoint = "embeddings"
    /\ IF ~Truthy(request.model)
         THEN AnswerWithoutLog(JSONResponse(
                  build_error_response("invalid_request_error",
                      Message("Model is required", Null, <<>>), "missing_model"),
                  400))
         ELSE IF ~Truthy(request.payload)
         THEN AnswerWithoutLog(JSONResponse(
                  build_error_response("invalid_request_error",
                      Message("Input is required", Null, <<>>), "missing_input"),
                  400))
         ELSE LET r == create_embedding_request(request.model, request, config, environ)
              IN  IF r.tag = "ok"
                    THEN Dispatch(r.call, to_dict(r.call))
                    ELSE AnswerWithoutLog(Unhandled("UnboundLocalError"))
    /\ UNCHANGED <<config, environ, request, dbUp, outcome, handling>>
    /\ UNCHANGED streamOnlyVars
    /\ UNCHANGED pricingVars
    /\ UNCHANGED loaderVars
    /\ UNCHANGED callVars
    /\ UNCHANGED costed

(***************************************************************************)
(* Pricing: pricing.py, CatwalkPricingService                              *)
(***************************************************************************)
\* Most iterations of refresh_loop explored.
MaxRefreshes == 2

\* The tasks that rebuild the index: startup's initialize() and the
\* background refresh_loop().
Tasks == {"initialize", "refresh_loop"}

\* A cost field of a catalogue entry: JSON null (or absent), a number, a
\* numeric string, a string float() rejects, or an array.
CostNull == [t |-> "null", v |-> 0]
CostNumber(n) == [t |-> "number", v |-> n]
CostNumericString(n) == [t |-> "numeric-string", v |-> n]
CostText == [t |-> "text", v |-> 0]
CostArray == [t |-> "array", v |-> 0]

\* float(cost): the exception it raises (Null when it raises none) and the
\* value it gives.
FloatRaises(c) ==
    CASE c.t = "text"  -> "ValueError"
      [] c.t = "array" -> "TypeError"
      [] OTHER         -> Null
to_float(c) == c.v

\* One element of a provider's "models" array: an object, or a bare string.
ModelEntry(id, cin, cout) ==
    [shape |-> "object", id |-> id, cost_per_1m_in |-> cin, cost_per_1m_out |-> cout]
ModelScalar ==
    [shape |-> "string", id |-> Null, cost_per_1m_in |-> CostNull,
     cost_per_1m_out |-> CostNull]

\* The "models" member of a provider object: an array, null, or not there.
ModelsArray(items) == [shape |-> "array", items |-> items]
ModelsNull == [shape |-> "null", items |-> <<>>]
ModelsAbsent == [shape |-> "absent", items |-> <<>>]

\* One element of the payload: a provider object, or a bare string (which
\* is also what iterating a top-level JSON object yields).
ProviderEntry(id, models) == [shape |-> "object", id |-> id, models |-> models]
ProviderScalar == [shape |-> "string", id |-> Null, models |-> ModelsAbsent]

\* What response.json() returns: an array of providers, or null.
PayloadArray(items) == [shape |-> "array", items |-> items]
PayloadNull == [shape |-> "null", items |-> <<>>]

\* The catalogue payloads explored.
Payloads ==
    { \* two providers, one model each
      PayloadArray(<<
          ProviderEntry("openai", ModelsArray(<<
              ModelEntry("gpt-4o", CostNumber(3), CostNumber(6))>>)),
          ProviderEntry("anthropic", ModelsArray(<<
              ModelEntry("claude", CostNumber(5), CostNumber(9))>>))>>),
      \* one provider with other rates, one of them as numeric strings
      PayloadArray(<<
          ProviderEntry("openai", ModelsArray(<<
              ModelEntry("gpt-4o", CostNumber(4), CostNumber(8)),
              ModelEntry("gpt-4o-mini", CostNumericString(1), CostNumber(0))>>))>>),
      \* nothing usable: no provider id, no model id, a null cost, no models
      PayloadArray(<<
          ProviderEntry(Null, ModelsNull),
          ProviderEntry("openai", ModelsArray(<<
              ModelEntry("", CostNumber(1), CostNumber(1)),
              ModelEntry("gpt-4o", CostNull, CostNumber(6))>>)),
          ProviderEntry("anthropic", ModelsAbsent)>>),
      \* a good provider first, then a cost float() rejects
      PayloadArray(<<
          ProviderEntry("openai", ModelsArray(<<
              ModelEntry("gpt-4o", CostNumber(7), CostNumber(7))>>)),
          ProviderEntry("anthropic", ModelsArray(<<
              ModelEntry("claude", CostText, CostNumber(9))>>))>>),
      \* a cost that is an array
      PayloadArray(<<
          ProviderEntry("openai", ModelsArray(<<
              ModelEntry("gpt-4o", CostNumber(7), CostArray)>>))>>),
      \* a negative rate
      PayloadArray(<<
          ProviderEntry("openai", ModelsArray(<<
              ModelEntry("gpt-4o", CostNumber(-2), CostNumber(6))>>))>>),
      \* "models": null
      PayloadArray(<<ProviderEntry("openai", ModelsNull)>>),
      \* an element that is not an object
      PayloadArray(<<ProviderScalar>>),
      PayloadArray(<<
          ProviderEntry("openai", ModelsArray(<<ModelScalar>>))>>),
      \* JSON null
      PayloadNull }

\* What awaiting client.get() and reading the response can give.
NoFetch == [kind |-> "none", payload |-> PayloadNull]
ConnectFailed == [kind |-> "connect_error", payload |-> PayloadNull]
BadStatus == [kind |-> "bad_status", payload |-> PayloadNull]
NotJson == [kind |-> "not_json", payload |-> PayloadNull]
Json(p) == [kind |-> "json", payload |-> p]
RemoteResponses == {ConnectFailed, BadStatus, NotJson} \cup {Json(p) : p \in Payloads}

\* ModelPricing (lines 14-19).
ModelPricing(cin, cout) == [cost_per_1m_in |-> cin, cost_per_1m_out |-> cout]

\* d[k] = v on a dict.
Put(d, k, v) == [x \in DOMAIN d \cup {k} |-> IF x = k THEN v ELSE d[x]]

\* The outcome of building: the dict built, or the exception raised.
Built(dict) == [tag |-> "ok", dict |-> dict, exc |-> Null]
Failed(name) == [tag |-> "raised", dict |-> EmptyMap, exc |-> name]

\* Lines 69-79: the models of one provider, from element i on.
RECURSIVE BuildModels(_, _, _)
BuildModels(items, i, models_dict) ==
    IF i > Len(items) THEN Built(models_dict)
    ELSE LET model == items[i] IN
         IF model.shape # "object" THEN Failed("AttributeError")
         ELSE IF /\ model.id \notin {Null, ""}
                 /\ model.cost_per_1m_in.t # "null"
                 /\ model.cost_per_1m_out.t # "null"
           THEN IF FloatRaises(model.cost_per_1m_in) # Null
                  THEN Failed(FloatRaises(model.cost_per_1m_in))
                ELSE IF FloatRaises(model.cost_per_1m_out) # Null
                  THEN Failed(FloatRaises(model.cost_per_1m_out))
                ELSE BuildModels(items, i + 1,
                         Put(models_dict, model.id,
                             ModelPricing(to_float(model.cost_per_1m_in),
                                          to_float(model.cost_per_1m_out))))
           ELSE BuildModels(items, i + 1, models_dict)

\* Lines 63-82: new_index, from provider i on.
RECURSIVE BuildProviders(_, _, _)
BuildProviders(items, i, new_index) ==
    IF i > Len(items) THEN Built(new_index)
    ELSE LET provider == items[i] IN
         IF provider.shape # "object" THEN Failed("AttributeError")
         ELSE IF provider.id \in {Null, ""}
           THEN BuildProviders(items, i + 1, new_index)
         ELSE IF provider.models.shape = "null" THEN Failed("TypeError")
         ELSE LET r == BuildModels(provider.models.items, 1, EmptyMap) IN
              IF r.tag # "ok" THEN r
              ELSE BuildProviders(items, i + 1,
                       IF DOMAIN r.dict # {}
                         THEN Put(new_index, provider.id, r.dict)
                         ELSE new_index)

\* Lines 58-82: from the response to new_index, or to the exception.
build_index(resp) ==
    CASE resp.kind \in {"connect_error", "bad_status"} -> Failed("HTTPError")
      [] resp.kind = "not_json" -> Failed("ValueError")
      [] resp.payload.shape = "null" -> Failed("TypeError")
      [] OTHER -> BuildProviders(resp.payload.items, 1, EmptyMap)

\* Lines 94 and 101: the exceptions _fetch_and_build_index catches.
CaughtErrors == {"HTTPError", "ValueError", "TypeError", "KeyError"}

\* pricing_override.get(key, 0.0)
RateOf(rates, key) == IF key \in DOMAIN rates THEN rates[key] ELSE 0

\* The lookup of lines 160-181 alone, with no override branch before it.
IndexedCost(index, catwalk_name, costing_model, prompt_tokens, completion_tokens) ==
    IF catwalk_name \in {Null, ""} THEN 0
    ELSE IF costing_model \in {Null, ""} THEN 0
    ELSE IF catwalk_name \notin DOMAIN index THEN 0
    ELSE IF costing_model \notin DOMAIN index[catwalk_name] THEN 0
    ELSE prompt_tokens * index[catwalk_name][costing_model].cost_per_1m_in
         + completion_tokens * index[catwalk_name][costing_model].cost_per_1m_out

\* calculate_cost consulting the index before the override.
calculate_cost_index_first(index, catwalk_name, costing_model, prompt_tokens, completion_tokens, pricing_override) ==
    IF IndexedCost(index, catwalk_name, costing_model, prompt_tokens, completion_tokens) # 0
      THEN IndexedCost(index, catwalk_name, costing_model, prompt_tokens, completion_tokens)
    ELSE IF pricing_override.given
      THEN prompt_tokens * RateOf(pricing_override.rates, "cost_per_1m_in")
           + completion_tokens * RateOf(pricing_override.rates, "cost_per_1m_out")
    ELSE 0

\* calculate_cost charging a default rate of 1 when the lookup misses.
calculate_cost_default_rate(index, catwalk_name, costing_model, prompt_tokens, completion_tokens, pricing_override) ==
    IF pricing_override.given
      THEN prompt_tokens * RateOf(pricing_override.rates, "cost_per_1m_in")
           + completion_tokens * RateOf(pricing_override.rates, "cost_per_1m_out")
    ELSE IF \/ catwalk_name \in {Null, ""} \/ costing_model \in {Null, ""}
            \/ catwalk_name \notin DOMAIN index
       THEN 0
    ELSE IF costing_model \notin DOMAIN index[catwalk_name]
       THEN prompt_tokens + completion_tokens
    ELSE IndexedCost(index, catwalk_name, costing_model, prompt_tokens, completion_tokens)

\* calculate_cost with the input and output rates exchanged.
calculate_cost_swapped_rates(index, catwalk_name, costing_model, prompt_tokens, completion_tokens, pricing_override) ==
    IF pricing_override.given
      THEN prompt_tokens * RateOf(pricing_override.rates, "cost_per_1m_in")
           + completion_tokens * RateOf(pricing_override.rates, "cost_per_1m_out")
    ELSE IndexedCost(index, catwalk_name, costing_model, completion_tokens, prompt_tokens)

\* calculate_cost, lines 108-192.  Rates are dollars per million tokens; the
\* result is in millionths of a dollar, so the division by 1_000_000 is the
\* change of unit.
calculate_cost(index, catwalk_name, costing_model, prompt_tokens, completion_tokens, pricing_override) ==
    IF pricing_override.given
      THEN prompt_tokens * RateOf(pricing_override.rates, "cost_per_1m_in")
           + completion_tokens * RateOf(pricing_override.rates, "cost_per_1m_out")
    ELSE IF catwalk_name \in {Null, ""} THEN 0
    ELSE IF costing_model \in {Null, ""} THEN 0
    ELSE IF catwalk_name \notin DOMAIN index THEN 0
    ELSE IF costing_model \notin DOMAIN index[catwalk_name] THEN 0
    ELSE prompt_tokens * index[catwalk_name][costing_model].cost_per_1m_in
         + completion_tokens * index[catwalk_name][costing_model].cost_per_1m_out

\* The calculate_cost calls explored.
LookupProviders == {Null, "openai", "mistral"}
LookupModels == {Null, "gpt-4o", "gpt-5"}
LookupTokens == {<<1000, 500>>}
LookupOverrides ==
    { NoOverride,
      Override([k \in {"cost_per_1m_in", "cost_per_1m_out"} |->
                    IF k = "cost_per_1m_in" THEN 1 ELSE 2]),
      Override([k \in {"cost_per_1m_in"} |-> 1]) }
\* The pairs of keys explored with pricing_override ov: every pair without
\* an override; with one, a pair the index may hold, a pair it never holds
\* and two missing keys, the one-rate override with the first only.
LookupKeys(ov) ==
    IF ~ov.given THEN LookupProviders \X LookupModels
    ELSE IF DOMAIN ov.rates = {"cost_per_1m_in", "cost_per_1m_out"}
      THEN {<<"openai", "gpt-4o">>, <<"mistral", "gpt-5">>, <<Null, Null>>}
    ELSE {<<"openai", "gpt-4o">>}
NoLookup == [catwalk_name |-> Null, costing_model |-> Null, tokens |-> <<0, 0>>,
             pricing_override |-> NoOverride, cost |-> 0, during |-> "free"]

\* The service as __init__ leaves it (lines 28-43), initialize() about to
\* run and refresh_loop() in its first sleep.
PricingIdle ==
    /\ pricing_index = EmptyMap
    /\ last_refresh = 0
    /\ lock = "free"
    /\ attempts = 0
    /\ ppc = [t \in Tasks |-> IF t = "initialize" THEN "acquire" ELSE "sleep"]
    /\ fetched = [t \in Tasks |-> NoFetch]
    /\ reported = [t \in Tasks |-> Null]
    /\ rounds = 0
    /\ lookup = NoLookup

\* The gateway's variables, which the pricing service never touches.
gatewayVars == <<streamOnlyVars, resolveOnlyVars, logCalls, records>>

\* AcquireLock entering the rebuild without waiting for the lock.
AcquireLockUnguarded(t) ==
    /\ ppc[t] = "acquire"
    /\ lock' = t
    /\ attempts' = attempts + 1
    /\ ppc' = [ppc EXCEPT ![t] = "fetch"]
    /\ UNCHANGED <<pricing_index, last_refresh, fetched, reported, rounds, lookup>>
    /\ UNCHANGED gatewayVars
    /\ UNCHANGED loaderVars
    /\ UNCHANGED callVars

\* Line 55: async with self._lock, entered once the lock is free.
AcquireLock(t) ==
    /\ ppc[t] = "acquire"
    /\ lock = "free"
    /\ lock' = t
    /\ attempts' = attempts + 1
    /\ ppc' = [ppc EXCEPT ![t] = "fetch"]
    /\ UNCHANGED <<pricing_index, last_refresh, fetched, reported, rounds, lookup>>
    /\ UNCHANGED gatewayVars
    /\ UNCHANGED loaderVars
    /\ UNCHANGED callVars

\* Lines 57-60: the awaited client.get() comes back, one way or another.
ClientGet(t) ==
    /\ ppc[t] = "fetch"
    /\ \E r \in RemoteResponses : fetched' = [fetched EXCEPT ![t] = r]
    /\ ppc' = [ppc EXCEPT ![t] = "build"]
    /\ UNCHANGED <<pricing_index, last_refresh, lock, attempts, reported, rounds,
                   lookup>>
    /\ UNCHANGED gatewayVars
    /\ UNCHANGED loaderVars
    /\ UNCHANGED callVars

\* Where a task goes when _fetch_and_build_index returns: initialize()
\* returns (line 47), refresh_loop() sleeps again (lines 200-201).
AfterRebuild(t) == IF t = "initialize" THEN "returned" ELSE "sleep"

\* BuildIndex updating the shared index provider by provider instead of
\* replacing it: providers the new build lacks keep their old entries.
BuildIndexMerging(t) ==
    /\ ppc[t] = "build"
    /\ LET b == build_index(fetched[t]) IN
          /\ pricing_index' =
                 [p \in DOMAIN pricing_index \cup DOMAIN b.dict |->
                     IF p \in DOMAIN b.dict THEN b.dict[p] ELSE pricing_index[p]]
          /\ last_refresh' = IF b.tag = "ok" THEN attempts ELSE last_refresh
          /\ reported' = [reported EXCEPT ![t] = IF b.tag = "ok" THEN "updated" ELSE b.exc]
          /\ ppc' = [ppc EXCEPT ![t] =
                        IF b.tag = "ok" \/ b.exc \in CaughtErrors
                          THEN AfterRebuild(t) ELSE "raised"]
    /\ lock' = "free"
    /\ fetched' = [fetched EXCEPT ![t] = NoFetch]
    /\ UNCHANGED <<attempts, rounds, lookup>>
    /\ UNCHANGED gatewayVars
    /\ UNCHANGED loaderVars
    /\ UNCHANGED callVars

\* BuildIndex writing into self._pricing_index while it builds: the shared
\* index is emptied first and filled only by a build that gets to its end.
BuildIndexInPlace(t) ==
    /\ ppc[t] = "build"
    /\ LET b == build_index(fetched[t]) IN
          /\ pricing_index' = b.dict
          /\ last_refresh' = IF b.tag = "ok" THEN attempts ELSE last_refresh
          /\ reported' = [reported EXCEPT ![t] = IF b.tag = "ok" THEN "updated" ELSE b.exc]
          /\ ppc' = [ppc EXCEPT ![t] =
                        IF b.tag = "ok" \/ b.exc \in CaughtErrors
                          THEN AfterRebuild(t) ELSE "raised"]
    /\ lock' = "free"
    /\ fetched' = [fetched EXCEPT ![t] = NoFetch]
    /\ UNCHANGED <<attempts, rounds, lookup>>
    /\ UNCHANGED gatewayVars
    /\ UNCHANGED loaderVars
    /\ UNCHANGED callVars

\* Lines 59-106: status check, parse, build and swap, or the except clause
\* that matches; the lock is released on the way out either way.  An
\* exception neither clause names leaves _fetch_and_build_index.
BuildIndex(t) ==
    /\ ppc[t] = "build"
    /\ LET b == build_index(fetched[t]) IN
          /\ pricing_index' = IF b.tag = "ok" THEN b.dict ELSE pricing_index
          /\ last_refresh' = IF b.tag = "ok" THEN attempts ELSE last_refresh
          /\ reported' = [reported EXCEPT ![t] = IF b.tag = "ok" THEN "updated" ELSE b.exc]
          /\ ppc' = [ppc EXCEPT ![t] =
                        IF b.tag = "ok" \/ b.exc \in CaughtErrors
                          THEN AfterRebuild(t) ELSE "raised"]
    /\ lock' = "free"
    /\ fetched' = [fetched EXCEPT ![t] = NoFetch]
    /\ UNCHANGED <<attempts, rounds, lookup>>
    /\ UNCHANGED gatewayVars
    /\ UNCHANGED loaderVars
    /\ UNCHANGED callVars

\* Lines 200-203: the sleep of refresh_loop ends and a rebuild starts.
Wake ==
    /\ ppc["refresh_loop"] = "sleep"
    /\ rounds < MaxRefreshes
    /\ rounds' = rounds + 1
    /\ ppc' = [ppc EXCEPT !["refresh_loop"] = "acquire"]
    /\ UNCHANGED <<pricing_index, last_refresh, lock, attempts, fetched, reported,
                   lookup>>
    /\ UNCHANGED gatewayVars
    /\ UNCHANGED loaderVars
    /\ UNCHANGED callVars

\* A request handler calls calculate_cost (lines 108-192); during is who
\* held the rebuild lock at the time of the call.
CalculateCost ==
    /\ \E ov \in LookupOverrides, tk \in LookupTokens :
          \E k \in LookupKeys(ov) :
             lookup' = [catwalk_name |-> k[1], costing_model |-> k[2], tokens |-> tk,
                        pricing_override |-> ov,
                        cost |-> calculate_cost(pricing_index, k[1], k[2],
                                                tk[1], tk[2], ov),
                        during |-> lock]
    /\ UNCHANGED <<pricing_index, last_refresh, lock, attempts, ppc, fetched,
                   reported, rounds>>
    /\ UNCHANGED gatewayVars
    /\ UNCHANGED loaderVars
    /\ UNCHANGED callVars

(***************************************************************************)
(* Configuration: config.py, Config                                        *)
(***************************************************************************)
\* Most calls of reload() explored, the constructor's included.
MaxReloads == 2

\* One element of provider_list: an object with some of its keys (Null for
\* an absent key), or a JSON value that is not an object.
ProviderDict(name, key, url) ==
    [shape |-> "object", provider_name |-> name, api_key |-> key, base_url |-> url]
ProviderDictScalar ==
    [shape |-> "scalar", provider_name |-> Null, api_key |-> Null, base_url |-> Null]

\* One element of model_list, likewise.
ModelDict(name, lm, prov) ==
    [shape |-> "object", model_name |-> name, model |-> lm, provider_name |-> prov]
ModelDictScalar ==
    [shape |-> "scalar", model_name |-> Null, model |-> Null, provider_name |-> Null]

\* The provider lists and model lists explored: empty (or absent), complete
\* entries only, and a complete entry before or after one lacking its name,
\* one lacking a required key, and one that is not an object.
ProviderLists ==
    { <<>>,
      <<ProviderDict("p1", "sk-1", "https://p1")>>,
      <<ProviderDict("p1", "sk-1", "https://p1"), ProviderDict("p2", "sk-2", "https://p2")>>,
      <<ProviderDict(Null, "sk-0", "https://p0"), ProviderDict("p1", "sk-1", "https://p1")>>,
      <<ProviderDict("p1", "sk-1", "https://p1"), ProviderDict("p2", Null, "https://p2")>>,
      <<ProviderDict("p2", "sk-2", Null), ProviderDict("p1", "sk-1", "https://p1")>>,
      <<ProviderDictScalar, ProviderDict("p1", "sk-1", "https://p1")>>,
      <<ProviderDict("p2", "sk-2", "https://p2"), ProviderDictScalar>> }
ModelLists ==
    { <<>>,
      <<ModelDict("alpha", "openai/gpt-4o", "p1")>>,
      <<ModelDict(Null, "openai/gpt-4o", "p1"), ModelDict("alpha", "openai/gpt-4o", "p1")>>,
      <<ModelDict("beta", "openai/gpt-4o", Null), ModelDict("alpha", "openai/gpt-4o", "p1")>>,
      <<ModelDict("alpha", "openai/gpt-4o", "p1"), ModelDictScalar>> }

\* What reload() finds at config_path: no file, a template jinja2 rejects,
\* text json.loads rejects, or JSON: an array, or an object with the lists.
NoFile == [kind |-> "none", shape |-> Null, provider_list |-> <<>>, model_list |-> <<>>]
ConfigFiles ==
    { [kind |-> k, shape |-> Null, provider_list |-> <<>>, model_list |-> <<>>] :
         k \in {"missing", "bad_template", "bad_json"} }
    \cup { [kind |-> "json", shape |-> "array", provider_list |-> <<>>, model_list |-> <<>>] }
    \cup { [kind |-> "json", shape |-> "object", provider_list |-> pl, model_list |-> ml] :
              pl \in ProviderLists, ml \in ModelLists }

\* Lines 93-113: the entry has a provider_name, and ProviderConfig(...)
\* validates: api_key and base_url are str fields and are passed as
\* provider_dict.get(...), None when the key is absent.
ProviderLoads(e) ==
    /\ e.provider_name \notin {Null, ""}
    /\ e.api_key # Null
    /\ e.base_url # Null

\* Lines 87-119: the loop of parse_providers from element i on.  .get on an
\* element that is not an object (line 89, outside the try) raises
\* AttributeError; an entry without provider_name, or one ProviderConfig
\* rejects (ValidationError, line 115), is skipped.
RECURSIVE ParseProviders(_, _, _)
ParseProviders(items, i, providers) ==
    IF i > Len(items) THEN Built(providers)
    ELSE IF items[i].shape # "object" THEN Failed("AttributeError")
    ELSE IF ~ProviderLoads(items[i]) THEN ParseProviders(items, i + 1, providers)
    ELSE ParseProviders(items, i + 1,
             Put(providers, items[i].provider_name,
                 ProviderConfig(items[i].provider_name, items[i].api_key, "120",
                                items[i].base_url)))

\* parse_providers (lines 84-124): config_data.get of a JSON array raises
\* AttributeError (line 87).
parse_providers(config_data) ==
    IF config_data.shape # "object" THEN Failed("AttributeError")
    ELSE ParseProviders(config_data.provider_list, 1, EmptyMap)

\* The fields ModelConfig requires, by the name a caller must use (lines
\* 42-45), and the keyword arguments parse_models passes (lines 144-149).
ModelConfigRequired == {"model_name", "model", "provider_name", "costing_model"}
ModelConfigPassed == {"model_name", "costing_model", "litellm_params", "provider_name"}

\* Lines 138-151: the entry has a model_name, and ModelConfig(...) validates.
ModelLoads(e) ==
    /\ e.model_name \notin {Null, ""}
    /\ ModelConfigRequired \subseteq ModelConfigPassed
    /\ e.provider_name # Null

\* Lines 132-158: the loop of parse_models from element i on; line 134 is
\* outside the try, as line 89 is.
RECURSIVE ParseModels(_, _, _)
ParseModels(items, i, models) ==
    IF i > Len(items) THEN Built(models)
    ELSE IF items[i].shape # "object" THEN Failed("AttributeError")
    ELSE IF ~ModelLoads(items[i]) THEN ParseModels(items, i + 1, models)
    ELSE ParseModels(items, i + 1,
             Put(models, items[i].model_name,
                 ModelConfig(items[i].model_name, items[i].model,
                             items[i].provider_name, EmptyMap, Null)))

\* parse_models (lines 126-169).
parse_models(config_data) ==
    IF config_data.shape # "object" THEN Failed("AttributeError")
    ELSE ParseModels(config_data.model_list, 1, EmptyMap)

\* reload() (lines 171-190) on the Config object self with file f at
\* config_path: the two maps afterwards and the exception caught, if any.
\* parse_providers assigns self.providers at line 121, before parse_models
\* runs; each except clause assigns self.models = {}.
reload(self, f) ==
    IF f.kind = "missing"
      THEN [providers |-> self.providers, models |-> EmptyMap, exc |-> "FileNotFoundError"]
    ELSE IF f.kind = "bad_template"
      THEN [providers |-> self.providers, models |-> EmptyMap, exc |-> "TemplateSyntaxError"]
    ELSE IF f.kind = "bad_json"
      THEN [providers |-> self.providers, models |-> EmptyMap, exc |-> "JSONDecodeError"]
    ELSE IF parse_providers(f).tag # "ok"
      THEN [providers |-> self.providers, models |-> EmptyMap,
            exc |-> parse_providers(f).exc]
    ELSE IF parse_models(f).tag # "ok"
      THEN [providers |-> parse_providers(f).dict, models |-> EmptyMap,
            exc |-> parse_models(f).exc]
    ELSE [providers |-> parse_providers(f).dict, models |-> parse_models(f).dict,
          exc |-> Null]

\* No reload() has run: the Config object is as lines 57-58 leave it.
LoaderIdle ==
    /\ reloads = 0
    /\ config_file = NoFile
    /\ reload_error = Null

\* One call of reload(): the constructor's (line 59) or a later one.
Reload ==
    /\ reloads < MaxReloads
    /\ reloads' = reloads + 1
    /\ \E f \in ConfigFiles :
          /\ config_file' = f
          /\ config' = [models |-> reload(config, f).models,
                        providers |-> reload(config, f).providers]
          /\ reload_error' = reload(config, f).exc
    /\ UNCHANGED <<environ, request, dbUp, rpc, merged, dispatched, outcome,
                   handling, response, costed, logCalls, records>>
    /\ UNCHANGED streamOnlyVars
    /\ UNCHANGED pricingVars
    /\ UNCHANGED callVars

(***************************************************************************)
(* Authentication: auth.py, and successive calls through the routes        *)
(***************************************************************************)
\* Most calls one run of the gateway serves.
MaxCalls == 2

\* An Authorization header: absent, or the words str.split() cuts it into.
Header(words) == [present |-> TRUE, words |-> words]
NoHeader == [present |-> FALSE, words |-> <<>>]
AuthorizationHeaders ==
    { NoHeader, Header(<<>>),
      Header(<<"Bearer", "tok-1">>), Header(<<"bearer", "tok-1">>),
      Header(<<"Bearer", "tok-2">>), Header(<<"Basic", "tok-1">>),
      Header(<<"Bearer">>), Header(<<"Bearer", "tok-1", "tok-1">>) }

\* str.lower() on the scheme words above.
lower(s) ==
    CASE s \in {"Bearer", "bearer", "BEARER"} -> "bearer"
      [] s \in {"Basic", "basic"}             -> "basic"
      [] OTHER                                -> s

\* auth.py lines 19-21: os.environ.get("API_TOKEN_REQUIRED", None).
get_api_token_required(env) ==
    IF "API_TOKEN_REQUIRED" \in DOMAIN env THEN env["API_TOKEN_REQUIRED"] ELSE Null

\* auth.py lines 29-33.
is_authentication_required(env) == "API_TOKEN_REQUIRED" \in DOMAIN env

\* What get_current_user does: return the user or raise HTTPException(401).
Authenticated == [tag |-> "ok", detail |-> Null]
Raise401(detail) == [tag |-> "http", detail |-> detail]

\* get_current_user without the comparison of lines 74-79.
get_current_user_any_token(h, env) ==
    IF ~is_authentication_required(env) THEN Authenticated
    ELSE IF ~h.present \/ h.words = <<>>
      THEN Raise401("Authorization header is missing")
    ELSE IF Len(h.words) # 2 THEN Raise401("Invalid token format")
    ELSE IF lower(h.words[1]) # "bearer"
      THEN Raise401("Invalid authentication scheme")
    ELSE Authenticated

\* auth.py lines 43-81.  A header that is absent or empty is falsy (line
\* 52); unpacking split() into two names raises ValueError unless there are
\* exactly two words (lines 60, 67); the scheme is compared in lower case
\* (line 61) and the token as it stands (line 74).
get_current_user(h, env) ==
    IF ~is_authentication_required(env) THEN Authenticated
    ELSE IF ~h.present \/ h.words = <<>>
      THEN Raise401("Authorization header is missing")
    ELSE IF Len(h.words) # 2 THEN Raise401("Invalid token format")
    ELSE IF lower(h.words[1]) # "bearer"
      THEN Raise401("Invalid authentication scheme")
    ELSE IF h.words[2] # get_api_token_required(env)
      THEN Raise401("Invalid token")
    ELSE Authenticated

\* The HTTPException(401) leaves the wrapper: the framework answers with its
\* status and detail.
Unauthorized(detail) ==
    [status |-> 401,
     error |-> build_error_response(Null, Message(detail, Null, <<>>), Null),
     escaped |-> "HTTPException", body |-> Null]

\* authenticated_route's wrapper, auth.py lines 137-148: the handler is
\* awaited only when get_current_user did not raise.
AuthenticatedRoute ==
    /\ rpc = "received"
    /\ LET u == IF is_authentication_required(environ)
                  THEN get_current_user(headers, environ)
                  ELSE Authenticated
       IN  IF u.tag = "ok"
             THEN /\ rpc' = "arrived"
                  /\ UNCHANGED <<response, merged, dispatched, logCalls, records>>
             ELSE AnswerWithoutLog(Unauthorized(u.detail))
    /\ UNCHANGED <<config, environ, request, dbUp, outcome, handling, costed>>
    /\ UNCHANGED streamOnlyVars
    /\ UNCHANGED pricingVars
    /\ UNCHANGED loaderVars
    /\ UNCHANGED callVars

\* The values the credential variable takes over a run; Null is unset.
KeyValues == {Null, "sk-env", "sk-new"}

\* os.environ with variable k set to v, or without it when v is Null.
setenv(env, k, v) ==
    [n \in (IF v = Null THEN DOMAIN env \ {k} ELSE DOMAIN env \cup {k}) |->
        IF n = k THEN v ELSE env[n]]

\* The operator rotates, sets or unsets the credential variable while the
\* gateway runs; nothing reloads the configuration.
SetEnviron ==
    /\ \E v \in KeyValues :
          /\ environ' = setenv(environ, "KEY", v)
          /\ environ' # environ
    /\ UNCHANGED <<config, request, dbUp, rpc, merged, dispatched, outcome,
                   handling, response, costed, logCalls, records>>
    /\ UNCHANGED streamOnlyVars
    /\ UNCHANGED pricingVars
    /\ UNCHANGED loaderVars
    /\ UNCHANGED callVars

\* What a client may add to its body to redirect the call.
ClientOverrides ==
    { [k \in D |-> IF k = "api_key" THEN "sk-client" ELSE "https://elsewhere"] :
        D \in SUBSET {"api_key", "base_url"} }

\* The requests of the successive calls: one configured alias, either route.
CallRequests ==
    { [endpoint |-> e, model |-> "alpha", payload |-> "data", params |-> cp] :
        e \in {"chat", "embeddings"}, cp \in ClientOverrides }

\* The endpoint and credential a call handed to the executor (None where the
\* descriptor has none, or where the call was answered before the executor).
Handed(e, kwargs) ==
    [endpoint |-> e,
     api_key  |-> IF "api_key" \in DOMAIN kwargs THEN kwargs["api_key"] ELSE Null,
     base_url |-> IF "base_url" \in DOMAIN kwargs THEN kwargs["base_url"]
                  ELSE IF "api_base" \in DOMAIN kwargs THEN kwargs["api_base"]
                  ELSE Null]

\* A call is over (handed to the executor, or answered); the next request
\* arrives at the wrapper.
NextRequest ==
    /\ rpc \in {"dispatched", "responded"}
    /\ Len(served) + 1 < MaxCalls
    /\ served' = Append(served, Handed(request.endpoint, dispatched))
    /\ request' \in CallRequests
    /\ headers' \in AuthorizationHeaders
    /\ rpc' = "received"
    /\ merged' = EmptyMap
    /\ dispatched' = EmptyMap
    /\ response' = NoResponse
    /\ UNCHANGED <<config, environ, dbUp, outcome, handling, costed,
                   logCalls, records>>
    /\ UNCHANGED streamOnlyVars
    /\ UNCHANGED pricingVars
    /\ UNCHANGED loaderVars

\* No call has been served: the other specifications start past the wrapper.
CallsIdle ==
    /\ headers = NoHeader
    /\ served = <<>>

(***************************************************************************)
(* Handlers: the requests and configurations explored                      *)
(***************************************************************************)
\* Most parameters a client sends in one request.
MaxClientParams == 2
\* Most entries of one model's litellm_params.
MaxModelParams == 2
\* Most models of one configuration.
MaxModels == 3

\* Dicts over at most n of the parameter keys, each value v or null.
ParamMaps(v, n) ==
    UNION { [D -> {Null, v}] : D \in {S \in SUBSET ParamKeys : Cardinality(S) <= n} }

\* Lists of distinct aliases, at most n long: the key orders of config.models.
RECURSIVE AliasLists(_)
AliasLists(n) ==
    IF n = 0 THEN {<<>>}
    ELSE AliasLists(n - 1) \cup
         { Append(l, a) : l \in {x \in AliasLists(n - 1) : Len(x) = n - 1},
                          a \in Aliases }

DistinctAliasLists(n) ==
    { l \in AliasLists(n) : \A i, j \in 1..Len(l) : i # j => l[i] # l[j] }

\* The provider each alias of the lookup configurations names.
ProviderOf(a) == IF a = "beta" THEN "p2" ELSE "p1"

\* The streaming call's variables while no stream is modelled.
StreamIdle ==
    /\ upstream = <<>>
    /\ idx = 0
    /\ pc = "done"
    /\ connected = TRUE
    /\ closing = FALSE
    /\ sent = <<>>
    /\ exc = Null
    /\ stream_error = Null
    /\ socket_error_logged = FALSE
    /\ full_response = EmptyResponse
    /\ observed = {}
    /\ raisedWhile = Null
    /\ propagated = Null

HandlerStart ==
    /\ rpc = "arrived"
    /\ merged = EmptyMap
    /\ dispatched = EmptyMap
    /\ outcome = NoOutcome
    /\ handling = Null
    /\ response = NoResponse
    /\ costed = NoCost
    /\ logCalls = 0
    /\ records = <<>>

\* One configured alias, every mix of client, model and provider values.
InitParams ==
    /\ \E lm \in LitellmModels, mp \in ParamMaps("m", MaxModelParams),
          ctx \in {Null, "4096"}, tmo \in {Null, "120"} :
          config = [models |-> <<ModelConfig("alpha", lm, "p1", mp, ctx)>>,
                    providers |-> [n \in {"p1"} |->
                         ProviderConfig(n, "sk-literal", tmo, "https://p1")]]
    /\ environ = EmptyMap
    /\ \E cp \in ParamMaps("c", MaxClientParams) :
          request = [endpoint |-> "chat", model |-> "alpha", payload |-> "data",
                     params |-> cp]
    /\ dbUp = TRUE

\* Every alias list and provider map, requests naming any alias or none.
InitLookup ==
    /\ \E l \in DistinctAliasLists(MaxModels), ps \in SUBSET {"p1", "p2"} :
          config = [models |-> [i \in 1..Len(l) |->
                         ModelConfig(l[i], "openai/gpt-4o", ProviderOf(l[i]),
                                     EmptyMap, Null)],
                    providers |-> [n \in ps |->
                         ProviderConfig(n, "os.environ/KEY", "120", "https://p")]]
    /\ environ \in {EmptyMap, [k \in {"KEY"} |-> "sk-env"]}
    /\ \E e \in {"chat", "embeddings"}, a \in Aliases \cup {"ghost-model", Null},
          pl \in {"data", Null} :
          request = [endpoint |-> e, model |-> a, payload |-> pl, params |-> EmptyMap]
    /\ dbUp \in BOOLEAN

InitResolve ==
    /\ StreamIdle
    /\ PricingIdle
    /\ LoaderIdle
    /\ CallsIdle
    /\ HandlerStart
    /\ (InitParams \/ InitLookup)

NextResolve ==
    \/ ChatCompletions
    \/ Embeddings
    \/ Completion
    \/ ExecuteRequest
    \/ HandleLlmErrorLog
    \/ HandleLlmErrorRespond

SpecResolve == InitResolve /\ [][NextResolve]_vars

\* The gateway's request variables while no request is modelled.
ResolveIdle ==
    /\ config = [models |-> <<>>, providers |-> EmptyMap]
    /\ environ = EmptyMap
    /\ request = [endpoint |-> "chat", model |-> Null, payload |-> Null,
                  params |-> EmptyMap]
    /\ dbUp = TRUE
    /\ rpc = "idle"
    /\ merged = EmptyMap
    /\ dispatched = EmptyMap
    /\ outcome = NoOutcome
    /\ handling = Null
    /\ response = NoResponse
    /\ costed = NoCost
    /\ logCalls = 0
    /\ records = <<>>

InitPricing ==
    /\ PricingIdle
    /\ LoaderIdle
    /\ CallsIdle
    /\ StreamIdle
    /\ ResolveIdle

NextPricing ==
    \/ \E t \in Tasks : AcquireLock(t)
    \/ \E t \in Tasks : ClientGet(t)
    \/ \E t \in Tasks : BuildIndex(t)
    \/ Wake
    \/ CalculateCost

SpecPricing == InitPricing /\ [][NextPricing]_vars

\* The Config object as __init__ leaves it at lines 57-58, before its first
\* reload().
InitConfig ==
    /\ ResolveIdle
    /\ StreamIdle
    /\ PricingIdle
    /\ LoaderIdle
    /\ CallsIdle

NextConfig == Reload

SpecConfig == InitConfig /\ [][NextConfig]_vars

\* The first request is at the wrapper; the provider's credential is a
\* literal or names the environment variable, the API token is set or not.
InitCalls ==
    /\ StreamIdle
    /\ PricingIdle
    /\ LoaderIdle
    /\ \E key \in {"os.environ/KEY", "sk-literal"} :
          config = [models |-> <<ModelConfig("alpha", "openai/gpt-4o", "p1",
                                             EmptyMap, Null)>>,
                    providers |-> [n \in {"p1"} |->
                         ProviderConfig(n, key, Null, "https://p1")]]
    /\ \E k \in KeyValues, t \in {Null, "", "tok-1"} :
          environ = setenv(setenv(EmptyMap, "KEY", k), "API_TOKEN_REQUIRED", t)
    /\ request \in CallRequests
    /\ headers \in AuthorizationHeaders
    /\ served = <<>>
    /\ dbUp = TRUE
    /\ rpc = "received"
    /\ merged = EmptyMap
    /\ dispatched = EmptyMap
    /\ outcome = NoOutcome
    /\ handling = Null
    /\ response = NoResponse
    /\ costed = NoCost
    /\ logCalls = 0
    /\ records = <<>>

NextCalls ==
    \/ AuthenticatedRoute
    \/ ChatCompletions
    \/ Embeddings
    \/ SetEnviron
    \/ NextRequest

SpecCalls == InitCalls /\ [][NextCalls]_vars

(***************************************************************************)
(* Streaming: generate(), one action per stretch of code between two       *)
(* suspension points                                                       *)
(***************************************************************************)
InitStream ==
    /\ upstream \in UpstreamSeqs
    /\ idx = 0
    /\ pc = "next"
    /\ connected = TRUE
    /\ closing = FALSE
    /\ sent = <<>>
    /\ exc = Null
    /\ stream_error = Null
    /\ socket_error_logged = FALSE
    /\ full_response = EmptyResponse
    /\ observed = {}
    /\ raisedWhile = Null
    /\ propagated = Null
    /\ logCalls = 0
    /\ records = <<>>
    /\ config = [models |-> <<>>, providers |-> EmptyMap]
    /\ environ = EmptyMap
    /\ request = [endpoint |-> "chat", model |-> Null, payload |-> Null,
                  params |-> EmptyMap]
    /\ dbUp = TRUE
    /\ rpc = "streaming"
    /\ merged = EmptyMap
    /\ dispatched = EmptyMap
    /\ outcome = NoOutcome
    /\ handling = Null
    /\ response = NoResponse
    /\ costed = NoCost
    /\ PricingIdle
    /\ LoaderIdle
    /\ CallsIdle

\* The caller goes away; request.is_disconnected() reports True from now on.
Disconnect ==
    /\ pc # "done"
    /\ connected
    /\ connected' = FALSE
    /\ UNCHANGED <<upstream, idx, pc, closing, sent, exc, stream_error,
                   socket_error_logged, full_response, observed, raisedWhile,
                   logCalls, records,
                   propagated>>
    /\ UNCHANGED resolveOnlyVars
    /\ UNCHANGED pricingVars
    /\ UNCHANGED loaderVars
    /\ UNCHANGED callVars

\* Line 62, the iterator hands over its next chunk.
FetchChunk ==
    /\ pc = "next"
    /\ idx < Len(upstream)
    /\ idx' = idx + 1
    /\ pc' = "check"
    /\ UNCHANGED <<upstream, connected, closing, sent, exc, stream_error,
                   socket_error_logged, full_response, observed, raisedWhile,
                   logCalls, records,
                   propagated>>
    /\ UNCHANGED resolveOnlyVars
    /\ UNCHANGED pricingVars
    /\ UNCHANGED loaderVars
    /\ UNCHANGED callVars

\* Line 62, the iterator is exhausted: the loop ends and finally runs.
FetchEnd ==
    /\ pc = "next"
    /\ idx = Len(upstream)
    /\ pc' = "fin_check"
    /\ UNCHANGED <<upstream, idx, connected, closing, sent, exc, stream_error,
                   socket_error_logged, full_response, observed, raisedWhile,
                   logCalls, records,
                   propagated>>
    /\ UNCHANGED resolveOnlyVars
    /\ UNCHANGED pricingVars
    /\ UNCHANGED loaderVars
    /\ UNCHANGED callVars

\* CatchTransport treating the transport error like an unexpected one.
CatchTransportAsError ==
    /\ socket_error_logged' = TRUE
    /\ exc' = "ConnectionError"
    /\ stream_error' = StreamErrorOf("ConnectionError")
    /\ pc' = "err_check"

\* Lines 88-93: a transport error ends the stream silently (return).
CatchTransport ==
    /\ socket_error_logged' = TRUE
    /\ pc' = "fin_check"
    /\ UNCHANGED <<exc, stream_error>>

\* CatchError leaving stream_error as it was.
CatchErrorUnrecorded(k) ==
    /\ exc' = k
    /\ pc' = "err_check"
    /\ UNCHANGED <<stream_error, socket_error_logged>>

\* Lines 95-99 and 104-108: a provider or unexpected error sets stream_error
\* and goes on to the connection check before the error event.
CatchError(k) ==
    /\ exc' = k
    /\ stream_error' = StreamErrorOf(k)
    /\ pc' = "err_check"
    /\ UNCHANGED socket_error_logged

\* Line 62 raises: the except clause matching the exception's class runs.
FetchRaise ==
    /\ pc = "next"
    /\ \E k \in RaisedKinds :
          /\ IF k \in TransportErrors THEN CatchTransport ELSE CatchError(k)
          /\ raisedWhile' = IF k \in TransportErrors THEN raisedWhile
                            ELSE IF connected THEN "connected" ELSE "disconnected"
    /\ UNCHANGED <<upstream, idx, connected, closing, sent, full_response,
                   observed, logCalls, records,
                   propagated>>
    /\ UNCHANGED resolveOnlyVars
    /\ UNCHANGED pricingVars
    /\ UNCHANGED loaderVars
    /\ UNCHANGED callVars

\* SeeDisconnect with the return leaving generate() past its epilogue.
SeeDisconnectNoEpilogue ==
    /\ socket_error_logged' = TRUE
    /\ observed' = IF observed = {} THEN {idx - 1} ELSE observed
    /\ pc' = "done"
    /\ UNCHANGED <<sent, full_response>>

\* SeeDisconnect accumulating and yielding the chunk before it returns.
SeeDisconnectForwarding ==
    /\ socket_error_logged' = TRUE
    /\ observed' = IF observed = {} THEN {idx - 1} ELSE observed
    /\ full_response' = Accumulate(full_response, upstream[idx])
    /\ sent' = Append(sent, ChunkEvent(upstream[idx]))
    /\ pc' = "fin_check"

\* Lines 64-68: the caller is gone, return without touching the chunk.
SeeDisconnect ==
    /\ socket_error_logged' = TRUE
    /\ observed' = IF observed = {} THEN {idx - 1} ELSE observed
    /\ pc' = "fin_check"
    /\ UNCHANGED <<sent, full_response>>

\* ForwardChunk yielding the chunk before the one just fetched.
ForwardChunkStale ==
    /\ full_response' = Accumulate(full_response, upstream[idx])
    /\ sent' = Append(sent, ChunkEvent(upstream[IF idx > 1 THEN idx - 1 ELSE idx]))
    /\ pc' = "yield_chunk"
    /\ UNCHANGED <<socket_error_logged, observed>>

\* Lines 70-86: accumulate the chunk and yield it.
ForwardChunk ==
    /\ full_response' = Accumulate(full_response, upstream[idx])
    /\ sent' = Append(sent, ChunkEvent(upstream[idx]))
    /\ pc' = "yield_chunk"
    /\ UNCHANGED <<socket_error_logged, observed>>

\* Lines 64-86: the checkpoint before each chunk.
CheckChunk ==
    /\ pc = "check"
    /\ IF connected THEN ForwardChunk ELSE SeeDisconnect
    /\ UNCHANGED <<upstream, idx, connected, closing, exc, stream_error, raisedWhile,
                   logCalls, records,
                   propagated>>
    /\ UNCHANGED resolveOnlyVars
    /\ UNCHANGED pricingVars
    /\ UNCHANGED loaderVars
    /\ UNCHANGED callVars

\* The consumer asks for the next event: generate() resumes after its yield.
Resume ==
    /\ pc \in {"yield_chunk", "yield_err", "yield_done"}
    /\ pc' = CASE pc = "yield_chunk" -> "next"
               [] pc = "yield_err"   -> "fin_check"
               [] pc = "yield_done"  -> "log"
    /\ UNCHANGED <<upstream, idx, connected, closing, sent, exc, stream_error,
                   socket_error_logged, full_response, observed, raisedWhile,
                   logCalls, records,
                   propagated>>
    /\ UNCHANGED resolveOnlyVars
    /\ UNCHANGED pricingVars
    /\ UNCHANGED loaderVars
    /\ UNCHANGED callVars

\* Where GeneratorExit, thrown at the yield generate() is suspended at, takes
\* it: from the try block or an except clause into finally; from the yield
\* inside finally (line 116) straight out of the generator.
AfterClose(at) == IF at = "yield_done" THEN "done" ELSE "fin_check"

\* The consumer stops iterating and the generator is closed (aclose()).
Abandon ==
    /\ pc \in {"yield_chunk", "yield_err", "yield_done"}
    /\ closing' = TRUE
    /\ pc' = AfterClose(pc)
    /\ UNCHANGED <<upstream, idx, connected, sent, exc, stream_error,
                   socket_error_logged, full_response, observed, raisedWhile,
                   logCalls, records,
                   propagated>>
    /\ UNCHANGED resolveOnlyVars
    /\ UNCHANGED pricingVars
    /\ UNCHANGED loaderVars
    /\ UNCHANGED callVars

\* ErrCheck without the is_disconnected() test.
ErrCheckUnconditional ==
    /\ pc = "err_check"
    /\ sent' = Append(sent, ErrorEvent(ErrorCode(exc)))
    /\ pc' = "yield_err"
    /\ UNCHANGED <<upstream, idx, connected, closing, exc, stream_error,
                   socket_error_logged, full_response, observed, raisedWhile,
                   logCalls, records,
                   propagated>>
    /\ UNCHANGED resolveOnlyVars
    /\ UNCHANGED pricingVars
    /\ UNCHANGED loaderVars
    /\ UNCHANGED callVars

\* Lines 101-102 and 110-111: the error event, only to a connected caller.
ErrCheck ==
    /\ pc = "err_check"
    /\ IF connected
         THEN /\ sent' = Append(sent, ErrorEvent(ErrorCode(exc)))
              /\ pc' = "yield_err"
         ELSE /\ pc' = "fin_check"
              /\ UNCHANGED sent
    /\ UNCHANGED <<upstream, idx, connected, closing, exc, stream_error,
                   socket_error_logged, full_response, observed, raisedWhile,
                   logCalls, records,
                   propagated>>
    /\ UNCHANGED resolveOnlyVars
    /\ UNCHANGED pricingVars
    /\ UNCHANGED loaderVars
    /\ UNCHANGED callVars

\* FinCheck going to the usage write without the [DONE] marker.
FinCheckSilent ==
    /\ pc = "fin_check"
    /\ pc' = "log"
    /\ UNCHANGED <<upstream, idx, connected, closing, sent, exc, stream_error,
                   socket_error_logged, full_response, observed, raisedWhile,
                   logCalls, records, propagated>>
    /\ UNCHANGED resolveOnlyVars
    /\ UNCHANGED pricingVars
    /\ UNCHANGED loaderVars
    /\ UNCHANGED callVars

\* Lines 113-116: [DONE], only to a connected caller.  A generator that is
\* being closed and yields again fails with RuntimeError ("async generator
\* ignored GeneratorExit") and is never resumed.
FinCheck ==
    /\ pc = "fin_check"
    /\ IF connected
         THEN IF closing
                THEN /\ pc' = "done"
                     /\ propagated' = "RuntimeError"
                     /\ UNCHANGED sent
                ELSE /\ pc' = "yield_done"
                     /\ sent' = Append(sent, DoneEvent)
                     /\ UNCHANGED propagated
         ELSE /\ pc' = "log"
              /\ UNCHANGED <<sent, propagated>>
    /\ UNCHANGED <<upstream, idx, connected, closing, exc, stream_error,
                   socket_error_logged, full_response, observed, raisedWhile,
                   logCalls, records>>
    /\ UNCHANGED resolveOnlyVars
    /\ UNCHANGED pricingVars
    /\ UNCHANGED loaderVars
    /\ UNCHANGED callVars

\* The record db.log_request is given at line 121.
StreamRecord == [response |-> full_response, error |-> stream_error]

\* LogRequest without the try/except around the write.
LogRequestUnguarded ==
    /\ pc = "log"
    /\ logCalls' = logCalls + 1
    /\ \/ records' = Append(records, StreamRecord) /\ UNCHANGED propagated
       \/ UNCHANGED records /\ propagated' = "DatabaseError"
    /\ pc' = "done"
    /\ UNCHANGED <<upstream, idx, connected, closing, sent, exc, stream_error,
                   socket_error_logged, full_response, observed, raisedWhile>>
    /\ UNCHANGED resolveOnlyVars
    /\ UNCHANGED pricingVars
    /\ UNCHANGED loaderVars
    /\ UNCHANGED callVars

\* LogRequest placed before the [DONE] check instead of after it.
LogRequestBeforeDone ==
    /\ pc = "log"
    /\ logCalls' = logCalls + 1
    /\ \/ records' = Append(records, StreamRecord)
       \/ UNCHANGED records
    /\ pc' = IF logCalls = 0 THEN "fin_check" ELSE "done"
    /\ UNCHANGED <<upstream, idx, connected, closing, sent, exc, stream_error,
                   socket_error_logged, full_response, observed, raisedWhile,
                   propagated>>
    /\ UNCHANGED resolveOnlyVars
    /\ UNCHANGED pricingVars
    /\ UNCHANGED loaderVars
    /\ UNCHANGED callVars

\* Lines 119-134: the usage write; a failure of it is caught and logged.
LogRequest ==
    /\ pc = "log"
    /\ logCalls' = logCalls + 1
    /\ \/ records' = Append(records, StreamRecord)
       \/ UNCHANGED records
    /\ pc' = "done"
    /\ UNCHANGED <<upstream, idx, connected, closing, sent, exc, stream_error,
                   socket_error_logged, full_response, observed, raisedWhile,
                   propagated>>
    /\ UNCHANGED resolveOnlyVars
    /\ UNCHANGED pricingVars
    /\ UNCHANGED loaderVars
    /\ UNCHANGED callVars

NextStream ==
    \/ Disconnect
    \/ FetchChunk
    \/ FetchEnd
    \/ FetchRaise
    \/ CheckChunk
    \/ Resume
    \/ Abandon
    \/ ErrCheck
    \/ FinCheck
    \/ LogRequest

SpecStream == InitStream /\ [][NextStream]_vars


(***************************************************************************)
(* Streaming: properties                                                   *)
(***************************************************************************)
\* The chunk events of sent, in order.
IsChunk(e) == e.kind = "chunk"
SentChunks == SelectSeq(sent, IsChunk)
\* How many events of kind k were sent.
CountKind(k) == Cardinality({i \in 1..Len(sent) : sent[i].kind = k})

\* C1: whichever way a streaming call ends, generate() has called
\* log_request exactly once by then (never twice, never not at all).
C1_LogExactlyOnce ==
    /\ logCalls <= 1
    /\ pc = "done" => logCalls = 1

\* C2: when the disconnect is first observed at the check before chunk k+1,
\* exactly the first k chunks and nothing else have been forwarded, nothing
\* is forwarded later, and the call ends with exactly one log_request call.
C2_DisconnectAfterK ==
    \A k \in observed :
        /\ Len(sent) = k
        /\ \A i \in 1..k : sent[i] = ChunkEvent(upstream[i])
        /\ logCalls <= 1
        /\ pc = "done" => logCalls = 1

\* C2 witness: the disconnect was observed after chunk 2 of 5 and the call
\* has ended.
C2_Witness ==
    /\ Len(upstream) = 5
    /\ observed = {2}
    /\ pc = "done"
    /\ Len(sent) = 2
    /\ logCalls = 1

\* C3: the forwarded chunks are a prefix of the upstream sequence: the i-th
\* forwarded chunk is the i-th upstream chunk.
C3_ForwardedIsPrefix ==
    /\ Len(SentChunks) <= Len(upstream)
    /\ \A i \in 1..Len(SentChunks) : SentChunks[i].data = upstream[i]

\* C3 witness: three of five chunks were forwarded before the call ended.
C3_Witness ==
    /\ Len(upstream) = 5
    /\ Len(SentChunks) = 3
    /\ pc = "done"

\* C4: once log_request has been called, nothing more is emitted to the
\* caller, and log_request is called only from the end of the epilogue.
C4_NothingAfterLog ==
    [][ /\ logCalls > 0 => sent' = sent
        /\ logCalls' # logCalls => (pc = "log" /\ pc' = "done") ]_vars

\* C4 witness: a call that forwarded chunks and [DONE] and then logged.
C4_Witness ==
    /\ logCalls = 1
    /\ pc = "done"
    /\ Len(SentChunks) = 2
    /\ CountKind("done") = 1

\* C5: an upstream error with the caller connected (and consuming) to the
\* end gives the forwarded chunks, then one error event, then one [DONE],
\* and nothing else; an upstream error whose error event was withheld
\* because the caller had gone away gives no [DONE] either.  At most one
\* of each is ever emitted, with no chunk after the error event and nothing
\* after [DONE].
C5_ErrorThenDone ==
    /\ (pc = "done" /\ exc # Null /\ connected /\ ~closing) =>
          /\ Len(sent) = idx + 2
          /\ \A i \in 1..idx : sent[i] = ChunkEvent(upstream[i])
          /\ sent[idx + 1].kind = "error"
          /\ sent[idx + 2] = DoneEvent
    /\ raisedWhile = "disconnected" =>
          (CountKind("error") = 0 /\ CountKind("done") = 0)
    /\ (exc # Null /\ pc # "err_check" /\ CountKind("error") = 0) =>
          CountKind("done") = 0
    /\ CountKind("error") <= 1
    /\ CountKind("done") <= 1
    /\ \A i \in 1..Len(sent) :
          /\ sent[i].kind = "done" => i = Len(sent)
          /\ sent[i].kind = "error" =>
                \A j \in (i + 1)..Len(sent) : sent[j].kind = "done"

\* C5 witness: a rate-limit error after two chunks, caller connected
\* throughout, call ended.
C5_Witness ==
    /\ pc = "done"
    /\ exc = "RateLimitError"
    /\ connected
    /\ ~closing
    /\ idx = 2
    /\ Len(sent) = 4

\* C16: the epilogue's usage write, failed or not, ends generate()
\* normally: the step from the write sends nothing, changes nothing already
\* sent and lets no exception out of the generator.
C16_EpilogueWriteFailureCaught ==
    [][ (pc = "log" /\ pc' # pc) =>
          /\ logCalls' = logCalls + 1
          /\ sent' = sent
          /\ propagated' = Null
          /\ pc' = "done" ]_vars

\* C16 witness: a stream of two chunks and [DONE] whose usage write failed:
\* one log_request call, no record, no exception.
C16_Witness ==
    /\ pc = "done"
    /\ logCalls = 1
    /\ records = <<>>
    /\ propagated = Null
    /\ Len(SentChunks) = 2
    /\ CountKind("done") = 1

\* C17: the error event of a mid-stream error carries the unexpected-error
\* fallback tag exactly when the error is not one of the nine upstream kinds.
C17_NineKindsTagged ==
    \A i \in 1..Len(sent) :
        sent[i].kind = "error" =>
            (sent[i].data = "internal_error" <=> exc \notin ProviderErrors)

\* C18: once a caller disconnect has been observed or a transport error
\* (broken pipe, connection error, connection reset) caught, the stream has
\* ended silently: no error event is or will be among the events sent and
\* no exception leaves generate().
C18_TransportEndsSilently ==
    socket_error_logged =>
        /\ CountKind("error") = 0
        /\ exc = Null
        /\ stream_error = Null
        /\ propagated = Null
        /\ pc \in {"fin_check", "yield_done", "log", "done"}

\* C18 witness: a transport error after two forwarded chunks with the
\* caller still connected; the call has ended.
C18_Witness ==
    /\ socket_error_logged
    /\ connected
    /\ observed = {}
    /\ pc = "done"
    /\ Len(SentChunks) = 2
    /\ logCalls = 1

\* The chunk events of the whole upstream sequence.
AllChunkEvents == [i \in 1..Len(upstream) |-> ChunkEvent(upstream[i])]

\* C19: when the upstream iterator ended without an error and the caller
\* stayed connected (and consuming), what was sent is every upstream chunk
\* in order followed by exactly one [DONE], and [DONE] is the last event.
C19_AllChunksThenDone ==
    (pc \in {"yield_done", "log", "done"} /\ exc = Null /\ ~socket_error_logged
        /\ connected /\ ~closing) =>
        sent = AllChunkEvents \o <<DoneEvent>>

\* C19 witness: three chunks delivered to a connected caller, call ended.
C19_Witness ==
    /\ pc = "done"
    /\ Len(upstream) = 3
    /\ exc = Null
    /\ ~socket_error_logged
    /\ connected
    /\ ~closing
    /\ Len(sent) = 4
    /\ sent[4] = DoneEvent

(***************************************************************************)
(* Resolver and handlers: properties                                       *)
(***************************************************************************)
\* The configuration entries the request's alias resolves to.
ReqModel == get_model_for_name(config, request.model)
ReqProvider == config.providers[ReqModel.provider_name]
\* The value a dict gives a key, None when the key is absent.
Get(d, k) == IF k \in DOMAIN d THEN d[k] ELSE Null
\* The provider-level default of a parameter: only timeout has one.
ProviderDefault(k) == IF k = "timeout" THEN ReqProvider.timeout ELSE Null
\* c if non-null, else m if non-null, else p.
FirstNonNull(c, m, p) == IF c # Null THEN c ELSE IF m # Null THEN m ELSE p

\* C6: every optional parameter of the resolved chat descriptor is the
\* client's value if non-null, else the model config's if non-null, else the
\* provider's.
C6_PrecedenceLaw ==
    (rpc = "dispatched" /\ request.endpoint = "chat") =>
        \A k \in ParamKeys :
            merged[k] = FirstNonNull(Get(request.params, k),
                                     Get(ReqModel.litellm_params, k),
                                     ProviderDefault(k))

\* C7: a chat request to a strict model whose merged descriptor sets both
\* temperature and top_p is dispatched without top_p; no strict model is
\* handed both.
C7_StrictNeverBoth ==
    (rpc = "dispatched" /\ request.endpoint = "chat"
        /\ is_strict_model(merged["model"])) =>
        /\ (merged["temperature"] # Null /\ merged["top_p"] # Null) =>
               "top_p" \notin DOMAIN dispatched
        /\ ~({"temperature", "top_p"} \subseteq DOMAIN dispatched)

\* C7 witness: a strict model, top_p from the client and temperature from
\* the config, dispatched with temperature and without top_p.
C7_Witness ==
    /\ rpc = "dispatched"
    /\ is_strict_model(merged["model"])
    /\ Get(request.params, "top_p") = "c"
    /\ Get(request.params, "temperature") = Null
    /\ merged["top_p"] = "c"
    /\ merged["temperature"] = "m"
    /\ "temperature" \in DOMAIN dispatched
    /\ "top_p" \notin DOMAIN dispatched

\* C8: the keyword arguments handed to the executor hold no null value.
C8_NoNullDispatched ==
    rpc = "dispatched" => \A f \in DOMAIN dispatched : dispatched[f] # Null

\* C8 witness: a dispatch whose descriptor had top_p nulled by the strict
\* filter and a timeout left unset by the provider.
C8_Witness ==
    /\ rpc = "dispatched"
    /\ is_strict_model(merged["model"])
    /\ merged["top_p"] # Null
    /\ merged["timeout"] = Null
    /\ ReqProvider.timeout = Null
    /\ "top_p" \notin DOMAIN dispatched
    /\ "timeout" \notin DOMAIN dispatched
    /\ "model" \in DOMAIN dispatched

\* l lists exactly the configured aliases, each once, in ascending order.
IsSortedAliasList(l) ==
    /\ {l[i] : i \in 1..Len(l)} = {ModelKeys(config)[i] : i \in 1..Len(config.models)}
    /\ Len(l) = Len(config.models)
    /\ \A i, j \in 1..Len(l) : i < j => Rank(l[i]) < Rank(l[j])

\* C9: a chat or embedding request (with its payload, the database up)
\* naming an alias that is not configured is answered 404 with a message
\* listing the configured aliases in ascending order.
C9_UnknownAlias404 ==
    (rpc = "responded" /\ Truthy(request.model) /\ Truthy(request.payload)
        /\ dbUp /\ ~HasModel(config, request.model)) =>
        /\ response.escaped = Null
        /\ response.status = 404
        /\ IsSortedAliasList(response.error.message.available)

\* C10: a chat request (the database up) to a model whose provider is not
\* configured is answered 500, and neither the envelope nor the usage record
\* calls it a model-not-found / unknown-model error.
C10_ProviderMisconfiguredDistinct ==
    (rpc = "responded" /\ request.endpoint = "chat" /\ dbUp
        /\ Truthy(request.model) /\ HasModel(config, request.model)
        /\ ReqModel.provider_name \notin DOMAIN config.providers) =>
        /\ response.status = 500
        /\ response.error.code # "model_not_found"
        /\ \A i \in 1..Len(records) : records[i].error.tag # "UnknownModel"

\* The request cannot be resolved: it names no model, an alias that is not
\* configured, or a model whose provider is not configured.
Unresolvable ==
    \/ ~Truthy(request.model)
    \/ ~HasModel(config, request.model)
    \/ ReqModel.provider_name \notin DOMAIN config.providers

\* C11: for a chat or embedding request with no model field, an unknown
\* alias or a model whose provider is missing, the executor is never
\* invoked: no keyword arguments are ever handed over, no executor outcome
\* exists, and the handler goes from arrival straight to its answer.
C11_NoDispatchOnResolveError ==
    Unresolvable =>
        /\ dispatched = EmptyMap
        /\ outcome = NoOutcome
        /\ rpc \in {"arrived", "responded"}

\* C11 witness: a chat request to a configured model whose provider is not
\* configured has been answered (with the database up) and nothing was
\* dispatched.
C11_Witness ==
    /\ rpc = "responded"
    /\ request.endpoint = "chat"
    /\ HasModel(config, request.model)
    /\ ReqModel.provider_name \notin DOMAIN config.providers
    /\ response.status = 500
    /\ response.escaped = Null
    /\ dispatched = EmptyMap

\* C12: when the executor raised (one of the nine kinds or anything else),
\* the step that hands the caller an error envelope finds the usage record
\* already written: exactly one record, its response null, its error the
\* exception's name and cleaned message; the step itself writes nothing.
C12_ErrorLoggedBeforeEnvelope ==
    [][ (outcome.tag = "exc" /\ response' # response /\ response'.escaped = Null) =>
          /\ records' = records
          /\ Len(records) = 1
          /\ records[1].response = Null
          /\ records[1].error.tag = error_name(outcome.name)
          /\ records[1].error.detail = extract_error_message(outcome.name)
          /\ records[1].error.detail # NoMessage ]_vars

\* C12 witness: the executor raised a rate-limit error and the caller has
\* the 429 envelope, one record written.
C12_Witness ==
    /\ rpc = "responded"
    /\ outcome = Threw("RateLimitError")
    /\ response.status = 429
    /\ response.error.code = "rate_limit_exceeded"
    /\ Len(records) = 1

\* C13: a chat request ends with a completion or an error envelope; no
\* exception leaves the handler.
C13_NoExceptionEscapes ==
    (rpc = "responded" /\ request.endpoint = "chat") => response.escaped = Null

\* C14: a non-streaming chat request that names a model (the database up)
\* has produced exactly one usage record by the time it is answered.
C14_ExactlyOneRecord ==
    (rpc = "responded" /\ request.endpoint = "chat" /\ Truthy(request.model)
        /\ dbUp) => Len(records) = 1

\* C15: when the executor returned a completion (one the handler can
\* summarise), the caller receives that completion, whether or not the
\* usage record could be written.
C15_WriteFailureKeepsResponse ==
    (rpc = "responded" /\ outcome.tag = "ok" /\ outcome.body.usage # Null) =>
        response = CompletionResponse(outcome.body)

(***************************************************************************)
(* Pricing: properties                                                     *)
(***************************************************************************)
\* The step that ends task t's rebuild attempt, the attempt having failed
\* (fetch error, bad status, unparsable or malformed payload).
FailedAttemptEnds(t) ==
    /\ ppc[t] = "build"
    /\ ppc'[t] # "build"
    /\ build_index(fetched[t]).tag # "ok"

\* C20: a rebuild attempt that fails leaves the pricing index as it was:
\* the step that ends it changes neither the index nor the time of the
\* last refresh, and every calculate_cost lookup gives the same value after
\* it as before; the index changes only in the step that ends a successful
\* attempt.
C20_FailedRebuildKeepsIndex ==
    [][ /\ \A t \in Tasks :
              FailedAttemptEnds(t) =>
                  /\ pricing_index' = pricing_index
                  /\ last_refresh' = last_refresh
                  /\ \A cn \in LookupProviders \cup {"openai", "anthropic"},
                        cm \in LookupModels \cup {"claude", "gpt-4o-mini"},
                        tk \in LookupTokens, ov \in LookupOverrides :
                        calculate_cost(pricing_index', cn, cm, tk[1], tk[2], ov)
                          = calculate_cost(pricing_index, cn, cm, tk[1], tk[2], ov)
        /\ pricing_index' # pricing_index =>
              \E t \in Tasks : /\ ppc[t] = "build"
                               /\ build_index(fetched[t]).tag = "ok" ]_vars

\* C20 witness: the second attempt (by refresh_loop) failed on a cost that
\* float() rejects, after its build had already taken one provider; the
\* index of the first attempt is still in place.
C20_Witness ==
    /\ attempts = 2
    /\ last_refresh = 1
    /\ lock = "free"
    /\ reported["initialize"] = "updated"
    /\ reported["refresh_loop"] = "ValueError"
    /\ ppc["refresh_loop"] = "sleep"
    /\ DOMAIN pricing_index = {"openai", "anthropic"}
    /\ pricing_index["openai"]["gpt-4o"] = ModelPricing(3, 6)

\* Every index a rebuild can put in place whole: the empty one __init__
\* leaves, and new_index of each payload whose build reaches line 84.
CompleteIndexes ==
    {EmptyMap} \cup
    { build_index(r).dict : r \in {x \in RemoteResponses : build_index(x).tag = "ok"} }

\* C21: the shared index is at every moment the whole result of one build
\* (never part of one, never entries of two), and a calculate_cost call,
\* also one made while a rebuild holds the lock, computes its result from
\* that index and leaves it alone.
C21_LookupSeesWholeIndex ==
    /\ [](pricing_index \in CompleteIndexes)
    /\ [][ lookup' # lookup =>
              /\ pricing_index' = pricing_index
              /\ lookup'.cost = calculate_cost(pricing_index, lookup'.catwalk_name,
                                     lookup'.costing_model, lookup'.tokens[1],
                                     lookup'.tokens[2], lookup'.pricing_override) ]_vars

\* C21 witness: a lookup made while refresh_loop was rebuilding saw the
\* rates of the first build (3 and 6); the index has since been swapped to
\* the second build's.
C21_Witness ==
    /\ lookup.during = "refresh_loop"
    /\ lookup.catwalk_name = "openai"
    /\ lookup.costing_model = "gpt-4o"
    /\ ~lookup.pricing_override.given
    /\ lookup.cost = 6000
    /\ ppc["refresh_loop"] = "sleep"
    /\ DOMAIN pricing_index = {"openai"}
    /\ pricing_index["openai"]["gpt-4o"] = ModelPricing(4, 8)

\* The tasks inside _fetch_and_build_index's locked region.
InFlight == {t \in Tasks : ppc[t] \in {"fetch", "build"}}

\* C22: at most one rebuild is in flight, and it is the lock holder's; a
\* task that wants to rebuild meanwhile has not started fetching.
C22_OneRebuildInFlight ==
    /\ Cardinality(InFlight) <= 1
    /\ \A t \in InFlight : lock = t
    /\ InFlight = {} => lock = "free"

\* C22 witness: initialize() is fetching while refresh_loop() has woken
\* up and waits for the lock.
C22_Witness ==
    /\ ppc["initialize"] = "fetch"
    /\ ppc["refresh_loop"] = "acquire"
    /\ lock = "initialize"
    /\ attempts = 1

\* C23: no failure of a rebuild leaves _fetch_and_build_index: neither
\* initialize() nor refresh_loop() is ever ended by an exception.
C23_FailureNeverEscalated ==
    \A t \in Tasks : ppc[t] # "raised"

\* C24: with an override, the result is prompt_tokens * override input
\* rate + completion_tokens * override output rate (in millionths of a
\* dollar), whatever the index holds and whatever the keys are; 1000 and
\* 500 tokens at rates 1 and 2 cost 2000 millionths.
C24_OverrideIgnoresIndex ==
    lookup.pricing_override.given =>
        /\ lookup.cost =
              lookup.tokens[1] * RateOf(lookup.pricing_override.rates, "cost_per_1m_in")
              + lookup.tokens[2] * RateOf(lookup.pricing_override.rates, "cost_per_1m_out")
        /\ (/\ DOMAIN lookup.pricing_override.rates = {"cost_per_1m_in", "cost_per_1m_out"}
            /\ lookup.tokens = <<1000, 500>>) => lookup.cost = 2000

\* C24 witness: an override of 1 and 2 applied while the index holds the
\* very pair of keys at rates 3 and 6.
C24_Witness ==
    /\ lookup.pricing_override.given
    /\ DOMAIN lookup.pricing_override.rates = {"cost_per_1m_in", "cost_per_1m_out"}
    /\ lookup.catwalk_name = "openai"
    /\ lookup.costing_model = "gpt-4o"
    /\ lookup.cost = 2000
    /\ "openai" \in DOMAIN pricing_index
    /\ pricing_index["openai"]["gpt-4o"] = ModelPricing(3, 6)
    /\ last_refresh = 1
    /\ attempts = 1

\* The lookup of (cn, cm) in index finds no rates.
Miss(index, cn, cm) ==
    \/ cn \in {Null, ""}
    \/ cm \in {Null, ""}
    \/ cn \notin DOMAIN index
    \/ cm \notin DOMAIN index[cn]

\* C25: without an override, a call whose pricing key or costing key is
\* missing, or whose pricing key is not in the index, or whose costing key
\* is not under it, returns 0 and leaves the index unchanged.
C25_MissIsZero ==
    [][ (/\ lookup' # lookup
         /\ ~lookup'.pricing_override.given
         /\ Miss(pricing_index, lookup'.catwalk_name, lookup'.costing_model)) =>
            /\ lookup'.cost = 0
            /\ pricing_index' = pricing_index ]_vars

\* C25 witness: a lookup of a costing key that is not under its (indexed)
\* pricing key returned 0.
C25_Witness ==
    /\ ~lookup.pricing_override.given
    /\ lookup.catwalk_name = "openai"
    /\ lookup.costing_model = "gpt-5"
    /\ lookup.cost = 0
    /\ lookup.during = "free"
    /\ attempts = 1
    /\ "openai" \in DOMAIN pricing_index
    /\ "gpt-5" \notin DOMAIN pricing_index["openai"]

\* C26: without an override and with both keys in the index, the result is
\* prompt_tokens * indexed input rate + completion_tokens * indexed output
\* rate of exactly that pair of keys.
C26_HitUsesIndexedRates ==
    [][ (/\ lookup' # lookup
         /\ ~lookup'.pricing_override.given
         /\ ~Miss(pricing_index, lookup'.catwalk_name, lookup'.costing_model)) =>
            lookup'.cost =
                lookup'.tokens[1]
                  * pricing_index[lookup'.catwalk_name][lookup'.costing_model].cost_per_1m_in
                + lookup'.tokens[2]
                  * pricing_index[lookup'.catwalk_name][lookup'.costing_model].cost_per_1m_out
      ]_vars

\* C26 witness: 1000 and 500 tokens at the indexed rates 4 and 8.
C26_Witness ==
    /\ ~lookup.pricing_override.given
    /\ lookup.catwalk_name = "openai"
    /\ lookup.costing_model = "gpt-4o"
    /\ lookup.cost = 8000
    /\ lookup.during = "free"
    /\ attempts = 1
    /\ pricing_index["openai"]["gpt-4o"] = ModelPricing(4, 8)

\* C28: every entry of the index has both rates >= 0.
C28_RatesNonNegative ==
    \A p \in DOMAIN pricing_index : \A m \in DOMAIN pricing_index[p] :
        /\ pricing_index[p][m].cost_per_1m_in >= 0
        /\ pricing_index[p][m].cost_per_1m_out >= 0

\* C27: the cost obtained for a completed buffered call is
\* PricingIndex.calculate_cost applied to the call's pricing key, costing
\* key and override and the response's token counts, and it is computed
\* before log_request is called.
C27_CostFromPricingIndex ==
    costed.obtained =>
        /\ costed.cost = calculate_cost(pricing_index, costed.catwalk_name,
                                        costed.costing_model, costed.tokens[1],
                                        costed.tokens[2], costed.pricing_override)
        /\ costed.logCallsBefore = 0

(***************************************************************************)
(* Configuration: properties                                               *)
(***************************************************************************)
\* C29: a reload() that hits a failure leaves both the provider map and the
\* model map as they were before it; one that hits none replaces both by
\* the maps parsed from the file.
C29_ReloadAllOrNothing ==
    [][ reloads' # reloads =>
          IF reload_error' # Null
            THEN config' = config
            ELSE /\ config'.providers = parse_providers(config_file').dict
                 /\ config'.models = parse_models(config_file').dict ]_vars

\* An entry with every key its class requires (config.py lines 30-31, 34
\* and 42-44): a name and, for a provider, credential and base URL, for a
\* model, upstream model identifier and owning provider.
WellFormedProvider(e) ==
    /\ e.shape = "object"
    /\ Null \notin {e.provider_name, e.api_key, e.base_url}
WellFormedModel(e) ==
    /\ e.shape = "object"
    /\ Null \notin {e.model_name, e.model, e.provider_name}

\* C30: after a load of a file with a provider list and a model list, every
\* well-formed entry of either list is in its map, whatever malformed
\* entries the list holds besides and wherever they are.
C30_WellFormedEntriesLoaded ==
    (reloads > 0 /\ config_file.kind = "json" /\ config_file.shape = "object") =>
        /\ \A i \in DOMAIN config_file.provider_list :
               WellFormedProvider(config_file.provider_list[i]) =>
                   config_file.provider_list[i].provider_name \in DOMAIN config.providers
        /\ \A i \in DOMAIN config_file.model_list :
               WellFormedModel(config_file.model_list[i]) =>
                   config_file.model_list[i].model_name \in DOMAIN config.models

(***************************************************************************)
(* Resolver: properties of the store and the descriptor                    *)
(***************************************************************************)
\* C31: every ModelConfig the store holds names a provider alias that is a
\* key of the store's provider map.  (After a load the store holds no
\* ModelConfig at all, parse_models rejecting every entry; the resolver's
\* stores are not derived from a load.)
C31_ModelsNameKnownProviders ==
    \A i \in 1..Len(config.models) :
        config.models[i].provider_name \in DOMAIN config.providers

\* C33: every descriptor handed to the executor, chat or embedding, carries
\* an api_key, and it is not empty.
C33_CredentialNeverEmpty ==
    rpc = "dispatched" =>
        /\ "api_key" \in DOMAIN dispatched
        /\ dispatched["api_key"] # ""

\* C35: for every key of the model's litellm_params other than model and
\* api_key, the resolved chat descriptor holds the client's value when the
\* client sent a non-null one, and the config's value otherwise.
C35_ClientThenConfig ==
    (rpc = "dispatched" /\ request.endpoint = "chat") =>
        \A k \in DOMAIN ReqModel.litellm_params \ {"model", "api_key"} :
            merged[k] = IF Get(request.params, k) # Null
                          THEN request.params[k]
                          ELSE ReqModel.litellm_params[k]

\* C36: filter_parameters_for_model takes top_p away only from a strict
\* model's descriptor that holds both temperature and top_p; any other
\* descriptor is dispatched with the top_p it had.
C36_TopPDroppedOnlyWithTemperature ==
    (rpc = "dispatched" /\ request.endpoint = "chat") =>
        (~(/\ is_strict_model(merged["model"])
           /\ merged["temperature"] # Null
           /\ merged["top_p"] # Null) =>
            dispatched = to_dict(merged))

(***************************************************************************)
(* Streaming: properties of the synthetic record                           *)
(***************************************************************************)
\* The chunks forwarded to the caller, in order.
Forwarded == [i \in 1..Len(SentChunks) |-> SentChunks[i].data]
\* The non-null delta contents of a chunk sequence, in order.
HasContent(c) == c.content # Null
ContentsOf(chunks) ==
    [i \in 1..Len(SelectSeq(chunks, HasContent)) |->
        SelectSeq(chunks, HasContent)[i].content]
\* The field f of the last chunk of a sequence that has one, else d.
LastOf(chunks, f, d) ==
    LET S == {i \in 1..Len(chunks) : chunks[i][f] # Null}
    IN  IF S = {} THEN d ELSE chunks[CHOOSE i \in S : \A j \in S : j <= i][f]

\* C37: the synthetic record's content is the concatenation, in order, of
\* the non-null delta contents of exactly the chunks forwarded; its id is the
\* last non-empty id among them and its usage the last usage among them (the
\* zero usage when none carried one); the usage write is given this record.
C37_RecordMatchesForwarded ==
    /\ full_response.content = ContentsOf(Forwarded)
    /\ full_response.id = LastOf(Forwarded, "id", Null)
    /\ full_response.usage = LastOf(Forwarded, "usage", "u0")
    /\ records # <<>> => records[1].response = full_response

\* C37 witness: three of four chunks forwarded, two with content, the id
\* and the usage taken from different chunks, and the record written.
C37_Witness ==
    /\ Len(upstream) = 4
    /\ Len(SentChunks) = 3
    /\ records # <<>>
    /\ records[1].response = [id |-> "id2", content |-> <<"a", "b">>, usage |-> "u1"]
    /\ upstream[2].usage = "u1"
    /\ upstream[3].id = "id2"

\* C38: once the caller is gone (and stays gone) nothing more is emitted to
\* it and nothing more is accumulated: the chunk in hand when the disconnect
\* is observed is neither accumulated nor forwarded, and neither an error
\* event nor the [DONE] marker follows.
C38_NothingAfterDisconnect ==
    [][ ~connected => (sent' = sent /\ full_response' = full_response) ]_vars

\* C38 witness: the disconnect was observed at the check of the second of
\* three chunks; the call ended with one chunk forwarded and accumulated,
\* no [DONE], and its record written.
C38_Witness ==
    /\ Len(upstream) = 3
    /\ observed = {1}
    /\ pc = "done"
    /\ sent = <<ChunkEvent(upstream[1])>>
    /\ full_response.content = <<"a">>
    /\ upstream[2].content = "b"
    /\ records # <<>>

\* C39: the usage record of a streaming call has an error exactly when an
\* upstream or unexpected error ended the stream (not on completion, caller
\* disconnect or transport error), and in every case its content is what
\* was accumulated from the chunks forwarded before the exit.
C39_ErrorRecordedIffUpstreamError ==
    records # <<>> =>
        /\ (records[1].error # Null) <=> (raisedWhile # Null)
        /\ raisedWhile # Null => records[1].error = StreamErrorOf(exc)
        /\ records[1].response.content = ContentsOf(SubSeq(upstream, 1, Len(SentChunks)))

\* C39 witness: a rate-limit error after two chunks is recorded with the
\* content of the two.
C39_Witness ==
    /\ records # <<>>
    /\ records[1].error = "RateLimitError"
    /\ records[1].response.content = <<"a", "b">>
    /\ Len(SentChunks) = 2
    /\ idx = 2
    /\ Len(upstream) = 3

\* C39 second case, seen in the same run: a transport error is recorded
\* with no error.
C39_WitnessTransport ==
    /\ records # <<>>
    /\ records[1].error = Null
    /\ socket_error_logged
    /\ connected
    /\ observed = {}
    /\ idx < Len(upstream)


(***************************************************************************)
(* Authenticated routes and successive calls: properties                   *)
(***************************************************************************)
\* The provider's credential names the environment variable.
NamesEnviron == ReqProvider.api_key = "os.environ/KEY"
\* The handler hands a descriptor to the executor in this step.
Resolves == rpc = "arrived" /\ rpc' = "dispatched"

\* C32: a credential written as an environment marker is read from the
\* environment on every call: the descriptor a call hands to the executor
\* carries the value the variable holds at that call, whatever it held at an
\* earlier call, with no reload in between.
C32_CredentialReadOnEveryCall ==
    [][ (Resolves /\ NamesEnviron /\ "KEY" \in DOMAIN environ) =>
            /\ "api_key" \in DOMAIN dispatched'
            /\ dispatched'["api_key"] = environ["KEY"] ]_vars

\* The second call carries the rotated value, the first carried the old one.
C32_Witness ==
    /\ rpc = "dispatched"
    /\ NamesEnviron
    /\ reloads = 0
    /\ Len(served) = 1
    /\ served[1].api_key = "sk-env"
    /\ "api_key" \in DOMAIN dispatched
    /\ dispatched["api_key"] = "sk-new"

\* The headers that present token tok under the Bearer scheme.
BearerHeaders(tok) == { Header(<<s, tok>>) : s \in {"Bearer", "bearer", "BEARER"} }
\* The request being served is one the routes must admit.
Admissible ==
    \/ "API_TOKEN_REQUIRED" \notin DOMAIN environ
    \/ headers \in BearerHeaders(environ["API_TOKEN_REQUIRED"])

C40_EndpointAndCredentialFromProvider ==
    [][ (Resolves /\ request.endpoint = "chat") =>
            /\ Get(dispatched', "base_url") = ReqProvider.base_url
            /\ "api_key" \in DOMAIN dispatched' =>
                   dispatched'["api_key"] = ResolveApiKey(ReqProvider.api_key, environ) ]_vars

=============================================================================
